---- MODULE Spec2Model ----
(***************************************************************************)
(* Model of the rawdawg-mk2 meal planner: the zustand/immer planner store  *)
(* (src/unnamed/part_005, usePlannerStore) together with the meal-plan     *)
(* REST routes it talks to (src/app/api/mealplans).                        *)
(*                                                                         *)
(* Decimal values (decimal.js) are modelled as exact rationals [n, d] in   *)
(* lowest terms.  The catalogue below only holds foods whose cost/weight   *)
(* has a terminating decimal expansion of fewer than 20 significant        *)
(* digits, so decimal.js (precision 20) computes every quotient exactly    *)
(* and the rational model coincides with it.                               *)
(*                                                                         *)
(* immer: a draft pushed into another place of the tree is replaced, when  *)
(* the recipe finishes, by the finalised value of that draft, i.e. by the  *)
(* value AFTER the recipe's mutations.  A frozen object obtained from      *)
(* get() and pushed is kept as it is.  The model works on values and       *)
(* reproduces exactly this.                                                *)
(*                                                                         *)
(* Not modelled: createdAt/updatedAt timestamps, startDate/endDate, notes, *)
(* dogId, the nutritional fields of a food and the display units; no       *)
(* operation of the model reads them.                                      *)
(***************************************************************************)
EXTENDS Integers, Sequences, FiniteSets, TLC

VARIABLES
    currentPlan,   \* PlannerState.currentPlan : plan or Null
    savedPlans,    \* PlannerState.savedPlans  : sequence of plans
    history,       \* PlannerState.history     : [past, future], sequences of plans
    isLoading,     \* PlannerState.isLoading
    error,         \* PlannerState.error       : TRUE when a message is set
    db,            \* the storage behind the routes: [plans, cost, nextId]
    reqs,          \* requests in flight with the locals of their async handler
    nOps,          \* number of operations the user has started so far
    nReqs,         \* number of requests started so far
    lastOp,        \* the last operation taken, with its arguments
    trail,         \* history variable: the current run of edits, undos and redos
    calculator     \* the PortionCalculator component: its form fields, the unit
                   \* settings it reads and the two portions it displays

vars == <<currentPlan, savedPlans, history, isLoading, error, db, reqs, nOps, nReqs, lastOp, trail,
          calculator>>

-----------------------------------------------------------------------------
(* Bounds of the exploration *)

MaxOps == 4      \* operations the user starts
MaxItems == 2    \* items in a plan

-----------------------------------------------------------------------------
(* decimal.js values as exact rationals *)

Abs(x) == IF x < 0 THEN -x ELSE x

RECURSIVE GCD(_, _)
GCD(a, b) == IF b = 0 THEN a ELSE GCD(b, a % b)

Dec(n, d) ==
    LET g == GCD(Abs(n), Abs(d))
        s == IF d < 0 THEN -1 ELSE 1
    IN  [n |-> (s * n) \div g, d |-> (s * d) \div g]

DecInt(i) == [n |-> i, d |-> 1]
DAdd(a, b) == Dec(a.n * b.d + b.n * a.d, a.d * b.d)
DMul(a, b) == Dec(a.n * b.n, a.d * b.d)
DDiv(a, b) == Dec(a.n * b.d, a.d * b.n)
DGt(a, b) == a.n * b.d > b.n * a.d

\* Math.ceil(x.toNumber())
Ceil(a) == IF a.n % a.d = 0 THEN a.n \div a.d ELSE (a.n \div a.d) + 1

Null == [null |-> TRUE]

\* an optional argument or field (undefined / null): <<>> or <<v>>
None == <<>>
Some(v) == <<v>>
IsSome(o) == Len(o) > 0
Val(o) == o[1]

-----------------------------------------------------------------------------
(* The client's food catalogue (the FoodItem objects handed to addFoodItem)  *)
(* and the inputs the operations are tried with.                             *)

Foods ==
    { [id |-> "f1", weight |-> DecInt(2000), cost |-> DecInt(20)],
      [id |-> "f2", weight |-> DecInt(800),  cost |-> DecInt(1)] }

FoodIds == {f.id : f \in Foods}
ItemIds == FoodIds
AddQuantities == {DecInt(0), DecInt(200)}
Quantities == {DecInt(0), DecInt(100), DecInt(200)}
MealCounts == {0, 3, 14}
MealCountArgs == {None} \cup {Some(n) : n \in MealCounts}
PlanIds == {"p1"}
RepricedFoodIds == {"f1"}
NewCosts == {DecInt(30)}

\* the Partial<MealPlan> objects updatePlanDetails is called with
PlanUpdates ==
    { [durationDays |-> Some(5), mealsPerDay |-> None,    name |-> None],
      [durationDays |-> None,    mealsPerDay |-> Some(1), name |-> None],
      [durationDays |-> Some(5), mealsPerDay |-> Some(1), name |-> None],
      [durationDays |-> Some(0), mealsPerDay |-> None,    name |-> None],
      [durationDays |-> None,    mealsPerDay |-> None,    name |-> Some("B")] }

-----------------------------------------------------------------------------
(* Helpers of the store *)

RECURSIVE SumCost(_)
SumCost(items) ==
    IF items = <<>> THEN DecInt(0)
    ELSE DAdd(SumCost(SubSeq(items, 1, Len(items) - 1)), items[Len(items)].totalCost)

\* recalculateTotalCost: plan.totalCost = items.reduce((t, i) => t.add(i.totalCost), 0)
recalculateTotalCost(plan) == [plan EXCEPT !.totalCost = SumCost(plan.items)]

Min(a, b) == IF a < b THEN a ELSE b

\* Array.prototype.findIndex: the first index whose item has the id, 0 when none
findIndex(items, id) ==
    IF \E i \in 1..Len(items) : items[i].id = id
    THEN CHOOSE i \in 1..Len(items) :
            /\ items[i].id = id
            /\ \A j \in 1..(i - 1) : items[j].id # id
    ELSE 0

Push(seq, x) == Append(seq, x)
Pop(seq) == SubSeq(seq, 1, Len(seq) - 1)
Top(seq) == seq[Len(seq)]

-----------------------------------------------------------------------------
(* Synchronous store operations: what each does to the plan and to history *)

\* createNewPlan, the emptyPlan literal (the callers pass no id; 7 and 2 are
\* the `||` defaults of durationDays and mealsPerDay)
DefaultDurationDays == 7
DefaultMealsPerDay == 2

\* emptyPlan without the `|| 7` and `|| 2` defaults
emptyPlanNoDefault(initialData) ==
    [ id           |-> "",
      name         |-> IF IsSome(initialData.name) THEN Val(initialData.name) ELSE "New Meal Plan",
      durationDays |-> IF IsSome(initialData.durationDays) THEN Val(initialData.durationDays) ELSE 0,
      mealsPerDay  |-> IF IsSome(initialData.mealsPerDay) THEN Val(initialData.mealsPerDay) ELSE 0,
      totalCost    |-> DecInt(0),
      items        |-> <<>> ]

emptyPlan(initialData) ==
    [ id           |-> "",
      name         |-> IF IsSome(initialData.name) THEN Val(initialData.name) ELSE "New Meal Plan",
      durationDays |-> IF IsSome(initialData.durationDays) /\ Val(initialData.durationDays) # 0
                       THEN Val(initialData.durationDays) ELSE DefaultDurationDays,
      mealsPerDay  |-> IF IsSome(initialData.mealsPerDay) /\ Val(initialData.mealsPerDay) # 0
                       THEN Val(initialData.mealsPerDay) ELSE DefaultMealsPerDay,
      totalCost    |-> DecInt(0),
      items        |-> <<>> ]

\* newPlannerFoodItem taking the requested count as it is (no Math.min, line 705)
newPlannerFoodItemNoMin(plan, foodItem, quantityPerMeal, numberOfMeals) ==
    LET totalMeals    == plan.durationDays * plan.mealsPerDay
        mealCount     == IF IsSome(numberOfMeals) THEN Val(numberOfMeals) ELSE totalMeals
        totalQuantity == DMul(quantityPerMeal, DecInt(mealCount))
        costPerUnit   == DDiv(foodItem.cost, foodItem.weight)
    IN  [ id              |-> foodItem.id,
          weight          |-> foodItem.weight,
          cost            |-> foodItem.cost,
          quantityPerMeal |-> quantityPerMeal,
          totalQuantity   |-> totalQuantity,
          totalCost       |-> DMul(costPerUnit, totalQuantity),
          costPerKg       |-> DMul(costPerUnit, DecInt(1000)),
          numberOfMeals   |-> mealCount ]

\* addFoodItem, lines 701-752: the PlannerFoodItem built from the arguments
newPlannerFoodItem(plan, foodItem, quantityPerMeal, numberOfMeals) ==
    LET totalMeals    == plan.durationDays * plan.mealsPerDay
        mealCount     == IF IsSome(numberOfMeals)
                         THEN Min(Val(numberOfMeals), totalMeals)
                         ELSE totalMeals
        totalQuantity == DMul(quantityPerMeal, DecInt(mealCount))
        costPerUnit   == DDiv(foodItem.cost, foodItem.weight)
    IN  [ id              |-> foodItem.id,
          weight          |-> foodItem.weight,
          cost            |-> foodItem.cost,
          quantityPerMeal |-> quantityPerMeal,
          totalQuantity   |-> totalQuantity,
          totalCost       |-> DMul(costPerUnit, totalQuantity),
          costPerKg       |-> DMul(costPerUnit, DecInt(1000)),
          numberOfMeals   |-> mealCount ]

\* addFoodItem, lines 760-764: the plan after the recipe
addFoodItemPlan(plan, foodItem, quantityPerMeal, numberOfMeals) ==
    recalculateTotalCost(
        [plan EXCEPT !.items =
            Append(@, newPlannerFoodItem(plan, foodItem, quantityPerMeal, numberOfMeals))])

\* updateFoodItemQuantityPlan spreading the new quantity over every slot of the
\* plan instead of the item's own numberOfMeals (lines 792-796)
updateFoodItemQuantityPlanAllSlots(plan, foodItemId, quantityPerMeal) ==
    LET itemIndex == findIndex(plan.items, foodItemId) IN
    IF itemIndex = 0 THEN plan
    ELSE LET item          == plan.items[itemIndex]
             totalMeals    == plan.durationDays * plan.mealsPerDay
             totalQuantity == DMul(quantityPerMeal, DecInt(totalMeals))
             costPerUnit   == DDiv(item.cost, item.weight)
         IN  recalculateTotalCost(
                [plan EXCEPT !.items[itemIndex] =
                    [item EXCEPT !.quantityPerMeal = quantityPerMeal,
                                 !.totalQuantity   = totalQuantity,
                                 !.totalCost       = DMul(costPerUnit, totalQuantity),
                                 !.costPerKg       = DMul(costPerUnit, DecInt(1000))]])

\* updateFoodItemQuantity, lines 786-814
updateFoodItemQuantityPlan(plan, foodItemId, quantityPerMeal) ==
    LET itemIndex == findIndex(plan.items, foodItemId) IN
    IF itemIndex = 0 THEN plan
    ELSE LET item          == plan.items[itemIndex]
             totalQuantity == DMul(quantityPerMeal, DecInt(item.numberOfMeals))
             costPerUnit   == DDiv(item.cost, item.weight)
         IN  recalculateTotalCost(
                [plan EXCEPT !.items[itemIndex] =
                    [item EXCEPT !.quantityPerMeal = quantityPerMeal,
                                 !.totalQuantity   = totalQuantity,
                                 !.totalCost       = DMul(costPerUnit, totalQuantity),
                                 !.costPerKg       = DMul(costPerUnit, DecInt(1000))]])

\* updateFoodItemMealCount, lines 830-859
updateFoodItemMealCountPlan(plan, foodItemId, mealCount) ==
    LET itemIndex == findIndex(plan.items, foodItemId) IN
    IF itemIndex = 0 THEN plan
    ELSE LET item           == plan.items[itemIndex]
             totalMeals     == plan.durationDays * plan.mealsPerDay
             validMealCount == Min(mealCount, totalMeals)
             totalQuantity  == DMul(item.quantityPerMeal, DecInt(validMealCount))
             costPerUnit    == DDiv(item.cost, item.weight)
         IN  recalculateTotalCost(
                [plan EXCEPT !.items[itemIndex] =
                    [item EXCEPT !.numberOfMeals = validMealCount,
                                 !.totalQuantity = totalQuantity,
                                 !.totalCost     = DMul(costPerUnit, totalQuantity)]])

\* removeFoodItemPlan without the recalculation of line 881
removeFoodItemPlanStale(plan, foodItemId) ==
    [plan EXCEPT !.items = SelectSeq(@, LAMBDA item : item.id # foodItemId)]

\* removeFoodItem, lines 876-881
removeFoodItemPlan(plan, foodItemId) ==
    recalculateTotalCost(
        [plan EXCEPT !.items = SelectSeq(@, LAMBDA item : item.id # foodItemId)])

\* rescheduleItem without the adjustment of lines 632-634
rescheduleItemNoClamp(item, totalMeals) ==
    LET totalQuantity == DMul(item.quantityPerMeal, DecInt(item.numberOfMeals))
    IN  [item EXCEPT !.totalQuantity = totalQuantity,
                     !.totalCost     = DMul(DDiv(item.cost, item.weight), totalQuantity)]

\* updatePlanDetails, lines 623-643: the forEach body
rescheduleItem(item, totalMeals) ==
    LET numberOfMeals == IF item.numberOfMeals > totalMeals THEN totalMeals
                         ELSE item.numberOfMeals
        totalQuantity == DMul(item.quantityPerMeal, DecInt(numberOfMeals))
    IN  [item EXCEPT !.numberOfMeals = numberOfMeals,
                     !.totalQuantity = totalQuantity,
                     !.totalCost     = DMul(DDiv(item.cost, item.weight), totalQuantity)]

\* updatePlanDetails, line 623: items.forEach over the whole list
RECURSIVE rescheduleItems(_, _)
rescheduleItems(items, totalMeals) ==
    IF items = <<>> THEN <<>>
    ELSE Append(rescheduleItems(SubSeq(items, 1, Len(items) - 1), totalMeals),
                rescheduleItem(items[Len(items)], totalMeals))

\* updatePlanDetails, lines 614-647
updatePlanDetailsPlan(plan, updates) ==
    LET assigned ==
            [plan EXCEPT
                !.durationDays = IF IsSome(updates.durationDays) THEN Val(updates.durationDays) ELSE @,
                !.mealsPerDay  = IF IsSome(updates.mealsPerDay) THEN Val(updates.mealsPerDay) ELSE @,
                !.name         = IF IsSome(updates.name) THEN Val(updates.name) ELSE @]
        \* `updates.x || state.currentPlan.x`, read after Object.assign
        durationDays == IF IsSome(updates.durationDays) /\ Val(updates.durationDays) # 0
                        THEN Val(updates.durationDays) ELSE assigned.durationDays
        mealsPerDay  == IF IsSome(updates.mealsPerDay) /\ Val(updates.mealsPerDay) # 0
                        THEN Val(updates.mealsPerDay) ELSE assigned.mealsPerDay
        totalMeals   == durationDays * mealsPerDay
    IN  IF IsSome(updates.durationDays) \/ IsSome(updates.mealsPerDay)
        THEN recalculateTotalCost(
                [assigned EXCEPT !.items = rescheduleItems(assigned.items, totalMeals)])
        ELSE assigned

\* The snapshot an item-level edit leaves on history.past.  The recipes of
\* addFoodItem, updateFoodItemQuantity, updateFoodItemMealCount and
\* removeFoodItem push the DRAFT state.currentPlan (lines 757, 783, 827, 872)
\* and mutate that draft afterwards: immer finalises the pushed draft to the
\* plan as the recipe leaves it.
draftCheckpoint(before, after) == after

\* updatePlanDetails pushes the frozen object read by get() (lines 606, 611)
frozenCheckpoint(before, after) == before

-----------------------------------------------------------------------------
(* The storage behind the routes.  db.plans is the MealPlan table with its   *)
(* MealPlanItem rows, db.cost the cost column of the FoodItem table (the     *)
(* weights do not change in the model), db.nextId counts the ids given out.  *)
(* The routes are modelled by their own code: prisma/schema.prisma also      *)
(* declares a required MealPlan.userId that POST never supplies; the model   *)
(* follows the route, whose create call is taken to succeed, and the other   *)
(* outcome (the route's catch block answering 500) is requestFails.          *)

PlanIdSeq == <<"p1", "p2", "p3", "p4", "p5">>

\* prisma/schema.prisma: Decimal @db.Decimal(10, 2) columns round to 2 places
\* (PostgreSQL numeric rounds half away from zero)
DecimalScale == 100

Round2(a) ==
    LET m == (2 * Abs(a.n) * DecimalScale + a.d) \div (2 * a.d)
    IN  Dec(IF a.n < 0 THEN -m ELSE m, DecimalScale)

\* the FoodItem row of an id as the routes read it, None when there is none
dbFood(d, foodItemId) ==
    IF foodItemId \in FoodIds
    THEN LET f == CHOOSE x \in Foods : x.id = foodItemId
         IN  Some([id |-> f.id, weight |-> f.weight, cost |-> d.cost[f.id]])
    ELSE None

\* savePlan, lines 375-380: currentPlan.items.map(...)
RECURSIVE itemsToSave(_)
itemsToSave(items) ==
    IF items = <<>> THEN <<>>
    ELSE LET item == items[Len(items)]
         IN  Append(itemsToSave(SubSeq(items, 1, Len(items) - 1)),
                    [ foodItemId      |-> item.id,
                      quantityPerMeal |-> item.quantityPerMeal,
                      totalQuantity   |-> item.totalQuantity,
                      numberOfMeals   |-> item.numberOfMeals ])

\* savePlan, lines 373-381: the body sent to the route
planToSave(plan) ==
    [ id           |-> plan.id,
      name         |-> plan.name,
      durationDays |-> plan.durationDays,
      mealsPerDay  |-> plan.mealsPerDay,
      totalCost    |-> plan.totalCost,
      items        |-> itemsToSave(plan.items) ]

\* mealPlanItemSchema / mealPlanSchema (zod): what the routes accept
validItem(item) ==
    /\ item.quantityPerMeal.n > 0
    /\ item.totalQuantity.n > 0
    /\ item.numberOfMeals > 0

validBody(body) ==
    /\ body.name # ""
    /\ body.durationDays > 0
    /\ body.mealsPerDay > 0
    /\ \A i \in 1..Len(body.items) : validItem(body.items[i])

\* POST lines 116-151 / PUT lines 116-144: the total the route computes
RECURSIVE serverTotalCost(_, _)
serverTotalCost(d, items) ==
    IF items = <<>> THEN DecInt(0)
    ELSE LET item     == items[Len(items)]
             foodItem == Val(dbFood(d, item.foodItemId))
             costPerUnit == DDiv(foodItem.cost, foodItem.weight)
         IN  DAdd(serverTotalCost(d, SubSeq(items, 1, Len(items) - 1)),
                  DMul(costPerUnit, item.totalQuantity))

\* the MealPlanItem rows created from a body (POST 139-150, PUT 154-163)
RECURSIVE itemRows(_)
itemRows(items) ==
    IF items = <<>> THEN <<>>
    ELSE LET item == items[Len(items)]
         IN  Append(itemRows(SubSeq(items, 1, Len(items) - 1)),
                    [ foodItemId      |-> item.foodItemId,
                      quantityPerMeal |-> Round2(item.quantityPerMeal),
                      totalQuantity   |-> Round2(item.totalQuantity),
                      numberOfMeals   |-> IF item.numberOfMeals # 0
                                          THEN Some(item.numberOfMeals) ELSE None ])

\* the MealPlan row written by POST (154-167, 85-95) and PUT (169-181)
planRow(d, id, body) ==
    [ id           |-> id,
      name         |-> body.name,
      durationDays |-> body.durationDays,
      mealsPerDay  |-> body.mealsPerDay,
      totalCost    |-> Round2(serverTotalCost(d, body.items)),
      items        |-> itemRows(body.items) ]

\* include: { items: { include: { foodItem: true } } }: the JSON of a row
RECURSIVE itemsJson(_, _)
itemsJson(d, rows) ==
    IF rows = <<>> THEN <<>>
    ELSE LET row == rows[Len(rows)]
         IN  Append(itemsJson(d, SubSeq(rows, 1, Len(rows) - 1)),
                    [ foodItemId      |-> row.foodItemId,
                      quantityPerMeal |-> row.quantityPerMeal,
                      totalQuantity   |-> row.totalQuantity,
                      numberOfMeals   |-> row.numberOfMeals,
                      foodItem        |-> dbFood(d, row.foodItemId) ])

planJson(d, row) == [row EXCEPT !.items = itemsJson(d, row.items)]

dbPlan(d, id) == {row \in d.plans : row.id = id}

-----------------------------------------------------------------------------
(* The client's conversion of a route's JSON into a PlannerMealPlan *)

\* item.numberOfMeals || Math.ceil(totalQuantity / (quantityPerMeal || 1))
mealCountOf(item) ==
    IF IsSome(item.numberOfMeals) /\ Val(item.numberOfMeals) # 0
    THEN Val(item.numberOfMeals)
    ELSE Ceil(DDiv(item.totalQuantity, item.quantityPerMeal))

\* savePlan, lines 457-479: the item built from a saved item
savedItem(item) ==
    LET foodItem == Val(item.foodItem) IN
    [ id              |-> foodItem.id,
      weight          |-> foodItem.weight,
      cost            |-> foodItem.cost,
      quantityPerMeal |-> item.quantityPerMeal,
      totalQuantity   |-> item.totalQuantity,
      totalCost       |-> DMul(foodItem.cost, item.totalQuantity),
      costPerKg       |-> DMul(DDiv(foodItem.cost, foodItem.weight), DecInt(1000)),
      numberOfMeals   |-> mealCountOf(item) ]

\* loadPlan, lines 544-578: the item built from a loaded item
loadedItem(item) ==
    LET foodItem    == Val(item.foodItem)
        costPerUnit == DDiv(foodItem.cost, foodItem.weight)
    IN  [ id              |-> foodItem.id,
          weight          |-> foodItem.weight,
          cost            |-> foodItem.cost,
          quantityPerMeal |-> item.quantityPerMeal,
          totalQuantity   |-> item.totalQuantity,
          totalCost       |-> DMul(costPerUnit, item.totalQuantity),
          costPerKg       |-> DMul(costPerUnit, DecInt(1000)),
          numberOfMeals   |-> mealCountOf(item) ]

\* .map(item => item.foodItem ? convert(item) : null).filter(Boolean)
RECURSIVE savedItems(_)
savedItems(items) ==
    IF items = <<>> THEN <<>>
    ELSE LET item == items[Len(items)]
             rest == savedItems(SubSeq(items, 1, Len(items) - 1))
         IN  IF IsSome(item.foodItem) THEN Append(rest, savedItem(item)) ELSE rest

RECURSIVE loadedItems(_)
loadedItems(items) ==
    IF items = <<>> THEN <<>>
    ELSE LET item == items[Len(items)]
             rest == loadedItems(SubSeq(items, 1, Len(items) - 1))
         IN  IF IsSome(item.foodItem) THEN Append(rest, loadedItem(item)) ELSE rest

\* savePlan, lines 436-483: processedPlan
savedProcessedPlan(json) == [json EXCEPT !.items = savedItems(json.items)]

\* loadPlan, lines 534-582: processedPlan
loadedProcessedPlan(json) == [json EXCEPT !.items = loadedItems(json.items)]

-----------------------------------------------------------------------------
(* History variable for round trips: the plans P0..Pn of the current run of  *)
(* consecutive applied edits, and how many undos and then redos followed.    *)

NoTrail == [plans |-> <<>>, undos |-> 0, redos |-> 0, ok |-> FALSE]

trailEdit(before, after) ==
    IF trail.ok /\ trail.undos = 0 /\ trail.redos = 0
    THEN [trail EXCEPT !.plans = Append(@, after)]
    ELSE [plans |-> <<before, after>>, undos |-> 0, redos |-> 0, ok |-> TRUE]

trailUndo ==
    IF trail.ok /\ trail.redos = 0 /\ trail.undos < Len(trail.plans) - 1
    THEN [trail EXCEPT !.undos = @ + 1]
    ELSE NoTrail

trailRedo ==
    IF trail.ok /\ trail.undos = Len(trail.plans) - 1 /\ trail.redos < trail.undos
    THEN [trail EXCEPT !.redos = @ + 1]
    ELSE NoTrail

-----------------------------------------------------------------------------
(* The portion calculator (src/components/planner/PortionCalculator.tsx).    *)
(*                                                                           *)
(* Its products have more digits than a machine integer holds, so a Decimal  *)
(* is kept here as its coefficient, a sequence of decimal digits with the    *)
(* least significant digit first and no zero at either end, and the number   *)
(* e of decimal places: value = coefficient * 10^(-e).  Every arithmetic     *)
(* operation of decimal.js rounds its result to Decimal.precision            *)
(* significant digits, half up; the operators below do the same.  Only       *)
(* non-negative values occur.                                                *)

Precision == 20

RECURSIVE Reverse(_)
Reverse(seq) == IF seq = <<>> THEN <<>> ELSE Append(Reverse(Tail(seq)), Head(seq))

RECURSIVE stripHigh(_)
stripHigh(m) ==
    IF m # <<>> /\ m[Len(m)] = 0 THEN stripHigh(SubSeq(m, 1, Len(m) - 1)) ELSE m

RECURSIVE stripLow(_)
stripLow(x) ==
    IF x.m = <<>> THEN [m |-> <<>>, e |-> 0]
    ELSE IF Head(x.m) = 0 THEN stripLow([m |-> Tail(x.m), e |-> x.e - 1])
    ELSE x

Big(m, e) == stripLow([m |-> stripHigh(m), e |-> e])

\* new Decimal(...) of a literal: its digits as written and its decimal places
Decimal(digits, places) == Big(Reverse(digits), places)

RECURSIVE toInt(_)
toInt(m) == IF m = <<>> THEN 0 ELSE Head(m) + 10 * toInt(Tail(m))

zeros(k) == [i \in 1..k |-> 0]

RECURSIVE addNat(_, _, _)
addNat(a, b, carry) ==
    IF a = <<>> /\ b = <<>> THEN (IF carry = 0 THEN <<>> ELSE <<carry>>)
    ELSE LET x == IF a = <<>> THEN 0 ELSE Head(a)
             y == IF b = <<>> THEN 0 ELSE Head(b)
             t == x + y + carry
         IN  <<t % 10>> \o addNat(IF a = <<>> THEN <<>> ELSE Tail(a),
                                  IF b = <<>> THEN <<>> ELSE Tail(b), t \div 10)

RECURSIVE mulDigit(_, _, _)
mulDigit(m, k, carry) ==
    IF m = <<>> THEN (IF carry = 0 THEN <<>> ELSE <<carry>>)
    ELSE LET t == Head(m) * k + carry
         IN  <<t % 10>> \o mulDigit(Tail(m), k, t \div 10)

RECURSIVE mulNat(_, _)
mulNat(a, b) ==
    IF b = <<>> THEN <<>>
    ELSE addNat(mulDigit(a, Head(b), 0), <<0>> \o mulNat(a, Tail(b)), 0)

\* quotient and remainder of the natural number m by a small k
RECURSIVE divNat(_, _)
divNat(m, k) ==
    IF m = <<>> THEN [q |-> <<>>, r |-> 0]
    ELSE LET high == divNat(Tail(m), k)
             cur  == high.r * 10 + Head(m)
         IN  [q |-> <<cur \div k>> \o high.q, r |-> cur % k]

\* toPrecision dropping the low digits without moving the decimal point
toPrecisionKeepsScale(x) ==
    LET n == Len(x.m)
        k == n - Precision
    IN  IF k <= 0 THEN x
        ELSE Big(addNat(SubSeq(x.m, k + 1, n), IF x.m[k] >= 5 THEN <<1>> ELSE <<>>, 0), x.e)

\* rounding to Precision significant digits, ROUND_HALF_UP
toPrecision(x) ==
    LET n == Len(x.m)
        k == n - Precision
    IN  IF k <= 0 THEN x
        ELSE Big(addNat(SubSeq(x.m, k + 1, n), IF x.m[k] >= 5 THEN <<1>> ELSE <<>>, 0), x.e - k)

\* x.mul(y)
mul(x, y) ==
    IF x.m = <<>> \/ y.m = <<>> THEN Big(<<>>, 0)
    ELSE toPrecision(Big(mulNat(x.m, y.m), x.e + y.e))

\* the decimal digits of a natural number, least significant first
RECURSIVE digitsOf(_)
digitsOf(k) == IF k = 0 THEN <<>> ELSE <<k % 10>> \o digitsOf(k \div 10)

\* x.div(k) for a positive integer k: the dividend is extended until the
\* quotient has at least one digit beyond the precision, and the quotient is
\* then rounded
div(x, k) ==
    IF x.m = <<>> THEN Big(<<>>, 0)
    ELSE LET wanted == Precision + 2 + Len(digitsOf(k))
             guard  == IF Len(x.m) >= wanted THEN 0 ELSE wanted - Len(x.m)
         IN  toPrecision(Big(divNat(zeros(guard) \o x.m, k).q, x.e + guard))

\* toDecimalPlaces0 cutting the fraction off instead of rounding
toDecimalPlaces0Down(x) ==
    IF x.e <= 0 THEN toInt(zeros(-x.e) \o x.m)
    ELSE IF x.e >= Len(x.m) THEN 0 ELSE toInt(SubSeq(x.m, x.e + 1, Len(x.m)))

\* x.toDecimalPlaces(0), ROUND_HALF_UP, as an integer
toDecimalPlaces0(x) ==
    IF x.e <= 0 THEN toInt(zeros(-x.e) \o x.m)
    ELSE LET n == Len(x.m)
             whole == IF x.e >= n THEN <<>> ELSE SubSeq(x.m, x.e + 1, n)
             tenth == IF x.e > n THEN 0 ELSE x.m[x.e]
         IN  toInt(whole) + (IF tenth >= 5 THEN 1 ELSE 0)

\* lines 9-15
ACTIVITY_MULTIPLIERS ==
    [ low      |-> Decimal(<<2>>, 2),
      moderate |-> Decimal(<<2, 5>>, 3),
      high     |-> Decimal(<<3>>, 2),
      puppy    |-> Decimal(<<4>>, 2),
      senior   |-> Decimal(<<1, 7, 5>>, 4) ]

ActivityLevels == DOMAIN ACTIVITY_MULTIPLIERS

\* lines 18 and 22
LBS_TO_KG == Decimal(<<4, 5, 3, 5, 9, 2, 3, 7>>, 8)
G_TO_OZ == Decimal(<<3, 5, 2, 7, 3, 9, 6, 1, 9, 5>>, 11)

(* The form fields.  A text field holds None when it is empty or does not    *)
(* parse as a number (both take the same branches), else the number typed:   *)
(* the weight as a Decimal, the age as a rational, mealsPerDay as parseInt   *)
(* yields it.                                                                *)
Weights == {Decimal(<<>>, 0), Decimal(<<1, 0>>, 0), Decimal(<<3, 3, 3>>, 1)}
WeightFields == {None} \cup {Some(w) : w \in Weights}
AgeFields == {None, Some(Dec(1, 2)), Some(DecInt(1)), Some(DecInt(7))}
MealsPerDayFields == {None, Some(0), Some(2), Some(3)}
WeightUnits == {"kg", "lbs"}
MeasureUnits == {"g", "oz"}

\* useForm defaultValues (lines 88-94), useState(null) (76-77) and
\* DEFAULT_PREFERENCES (preferencesStore.ts 31-37)
calculatorDefault ==
    [ weightUnit    |-> "kg",
      measureUnit   |-> "g",
      weight        |-> None,
      age           |-> None,
      activityLevel |-> "moderate",
      mealsPerDay   |-> Some(2),
      dailyPortion  |-> None,
      mealPortion   |-> None ]

\* ageRule treating a dog as senior only after its seventh year
ageRuleSeniorAfterSeven(age, activityLevel) ==
    IF ~IsSome(age) THEN activityLevel
    ELSE IF DGt(DecInt(1), Val(age)) THEN "puppy"
    ELSE IF DGt(Val(age), DecInt(7))
         THEN (IF activityLevel # "low" /\ activityLevel # "moderate" THEN "senior"
               ELSE activityLevel)
    ELSE IF activityLevel = "puppy" \/ activityLevel = "senior" THEN "moderate"
    ELSE activityLevel

\* the effect of lines 104-123: the activity level the age allows
ageRule(age, activityLevel) ==
    IF ~IsSome(age) THEN activityLevel
    ELSE IF DGt(DecInt(1), Val(age)) THEN "puppy"
    ELSE IF ~DGt(DecInt(7), Val(age))
         THEN (IF activityLevel # "low" /\ activityLevel # "moderate" THEN "senior"
               ELSE activityLevel)
    ELSE IF activityLevel = "puppy" \/ activityLevel = "senior" THEN "moderate"
    ELSE activityLevel

\* lines 130-142: dailyPortionGrams before it is rounded for display
dailyPortionGrams(c) ==
    LET weightInKg == IF c.weightUnit = "lbs" THEN mul(Val(c.weight), LBS_TO_KG)
                      ELSE Val(c.weight)
        grams      == mul(mul(weightInKg, Decimal(<<1, 0, 0, 0>>, 0)),
                          ACTIVITY_MULTIPLIERS[c.activityLevel])
    IN  IF c.measureUnit = "oz" THEN mul(grams, G_TO_OZ) ELSE grams

\* the effect of lines 126-170
portionEffect(c) ==
    IF IsSome(c.weight)
    THEN LET grams == dailyPortionGrams(c) IN
         [c EXCEPT
            !.dailyPortion = Some(toDecimalPlaces0(grams)),
            !.mealPortion  = IF IsSome(c.mealsPerDay) /\ Val(c.mealsPerDay) > 0
                             THEN Some(toDecimalPlaces0(div(grams, Val(c.mealsPerDay))))
                             ELSE @]
    ELSE [c EXCEPT !.dailyPortion = None, !.mealPortion = None]

\* a change of the form or of the settings, and the effects that follow it
rendered(c) == portionEffect([c EXCEPT !.activityLevel = ageRule(c.age, c.activityLevel)])

-----------------------------------------------------------------------------
(* Initial state: lines 107-119, and an empty MealPlan table *)

Init ==
    /\ currentPlan = Null
    /\ savedPlans = <<>>
    /\ history = [past |-> <<>>, future |-> <<>>]
    /\ isLoading = FALSE
    /\ error = FALSE
    /\ db = [plans |-> {}, cost |-> [id \in FoodIds |-> (CHOOSE f \in Foods : f.id = id).cost],
             nextId |-> 1]
    /\ reqs = {}
    /\ nOps = 0
    /\ nReqs = 0
    /\ lastOp = [op |-> "init"]
    /\ trail = NoTrail
    /\ calculator = calculatorDefault

server == <<db, reqs, nReqs>>

-----------------------------------------------------------------------------
(* Synchronous actions of the store *)

\* createNewPlan, lines 326-360
createNewPlan(initialData) ==
    /\ nOps < MaxOps
    /\ history' = IF currentPlan # Null
                  THEN [past |-> Push(history.past, currentPlan), future |-> <<>>]
                  ELSE history
    /\ error' = FALSE
    /\ currentPlan' = emptyPlan(initialData)
    /\ nOps' = nOps + 1
    /\ lastOp' = [op |-> "createNewPlan", initialData |-> initialData]
    /\ trail' = NoTrail
    /\ UNCHANGED <<savedPlans, isLoading, server>>
    /\ UNCHANGED calculator

\* the common shape of the four item-level edits: early return without a plan,
\* else one recipe that pushes the checkpoint, clears future and edits the plan
itemEdit(after, op) ==
    /\ nOps < MaxOps
    /\ nOps' = nOps + 1
    /\ lastOp' = op
    /\ IF currentPlan = Null
       THEN /\ trail' = NoTrail
            /\ UNCHANGED <<currentPlan, history>>
       ELSE /\ history' = [past |-> Push(history.past, draftCheckpoint(currentPlan, after)),
                           future |-> <<>>]
            /\ currentPlan' = after
            /\ trail' = IF op.applied THEN trailEdit(currentPlan, after) ELSE NoTrail
    /\ UNCHANGED <<savedPlans, isLoading, error, server>>
    /\ UNCHANGED calculator

hasItem(foodItemId) ==
    currentPlan # Null /\ findIndex(currentPlan.items, foodItemId) # 0

\* addFoodItem, lines 691-768
addFoodItem(foodItem, quantityPerMeal, numberOfMeals) ==
    /\ currentPlan # Null => Len(currentPlan.items) < MaxItems
    /\ itemEdit(IF currentPlan = Null THEN Null
                ELSE addFoodItemPlan(currentPlan, foodItem, quantityPerMeal, numberOfMeals),
                [op |-> "addFoodItem", foodItem |-> foodItem, quantityPerMeal |-> quantityPerMeal,
                 numberOfMeals |-> numberOfMeals, applied |-> currentPlan # Null])

\* updateFoodItemQuantity, lines 770-818
updateFoodItemQuantity(foodItemId, quantityPerMeal) ==
    /\ foodItemId \in ItemIds
    /\ itemEdit(IF currentPlan = Null THEN Null
             ELSE updateFoodItemQuantityPlan(currentPlan, foodItemId, quantityPerMeal),
             [op |-> "updateFoodItemQuantity", foodItemId |-> foodItemId,
              quantityPerMeal |-> quantityPerMeal, applied |-> hasItem(foodItemId)])

\* updateFoodItemMealCount, lines 820-863
updateFoodItemMealCount(foodItemId, mealCount) ==
    /\ foodItemId \in ItemIds
    /\ itemEdit(IF currentPlan = Null THEN Null
             ELSE updateFoodItemMealCountPlan(currentPlan, foodItemId, mealCount),
             [op |-> "updateFoodItemMealCount", foodItemId |-> foodItemId,
              mealCount |-> mealCount, applied |-> hasItem(foodItemId)])

\* removeFoodItem, lines 865-885
removeFoodItem(foodItemId) ==
    /\ foodItemId \in ItemIds
    /\ itemEdit(IF currentPlan = Null THEN Null
             ELSE removeFoodItemPlan(currentPlan, foodItemId),
             [op |-> "removeFoodItem", foodItemId |-> foodItemId,
              applied |-> hasItem(foodItemId)])

\* updatePlanDetails, lines 605-650
updatePlanDetails(updates) ==
    /\ nOps < MaxOps
    /\ nOps' = nOps + 1
    /\ lastOp' = [op |-> "updatePlanDetails", updates |-> updates, applied |-> currentPlan # Null]
    /\ IF currentPlan = Null
       THEN /\ trail' = NoTrail
            /\ UNCHANGED <<currentPlan, history>>
       ELSE LET after == updatePlanDetailsPlan(currentPlan, updates) IN
            /\ history' = [past |-> Push(history.past, frozenCheckpoint(currentPlan, after)),
                           future |-> <<>>]
            /\ currentPlan' = after
            /\ trail' = trailEdit(currentPlan, after)
    /\ UNCHANGED <<savedPlans, isLoading, error, server>>
    /\ UNCHANGED calculator

\* undo, lines 895-911
undo ==
    /\ nOps < MaxOps
    /\ nOps' = nOps + 1
    /\ lastOp' = [op |-> "undo", pastLen |-> Len(history.past), hadPlan |-> currentPlan # Null]
    /\ IF history.past = <<>>
       THEN UNCHANGED <<currentPlan, history>>
       ELSE LET previous == Top(history.past) IN
            IF currentPlan # Null
            THEN /\ history' = [past |-> Pop(history.past),
                                future |-> Push(history.future, currentPlan)]
                 /\ currentPlan' = previous
            ELSE /\ history' = [history EXCEPT !.past = Pop(@)]
                 /\ UNCHANGED currentPlan
    /\ trail' = trailUndo
    /\ UNCHANGED <<savedPlans, isLoading, error, server>>
    /\ UNCHANGED calculator

\* redo, lines 913-929
redo ==
    /\ nOps < MaxOps
    /\ nOps' = nOps + 1
    /\ lastOp' = [op |-> "redo", futureLen |-> Len(history.future), hadPlan |-> currentPlan # Null]
    /\ IF history.future = <<>>
       THEN UNCHANGED <<currentPlan, history>>
       ELSE LET next == Top(history.future) IN
            IF currentPlan # Null
            THEN /\ history' = [past |-> Push(history.past, currentPlan),
                                future |-> Pop(history.future)]
                 /\ currentPlan' = next
            ELSE /\ history' = [history EXCEPT !.future = Pop(@)]
                 /\ UNCHANGED currentPlan
    /\ trail' = trailRedo
    /\ UNCHANGED <<savedPlans, isLoading, error, server>>
    /\ UNCHANGED calculator

\* clearHistory, lines 931-938
clearHistory ==
    /\ nOps < MaxOps
    /\ nOps' = nOps + 1
    /\ history' = [past |-> <<>>, future |-> <<>>]
    /\ lastOp' = [op |-> "clearHistory"]
    /\ trail' = NoTrail
    /\ UNCHANGED <<currentPlan, savedPlans, isLoading, error, server>>
    /\ UNCHANGED calculator

-----------------------------------------------------------------------------
(* Asynchronous operations: the part of the handler before its first await,  *)
(* the route handling the request, and the part of the handler after the     *)
(* awaits.  A request in reqs carries the handler's locals.                  *)

store == <<currentPlan, savedPlans, history, isLoading, error>>

newReq(kind, planId, capturedId, body) ==
    [ rid |-> nReqs + 1, kind |-> kind, phase |-> "sent", planId |-> planId,
      capturedId |-> capturedId, body |-> body, json |-> Null ]

\* savePlan, lines 362-400
savePlanStart ==
    /\ nOps < MaxOps
    /\ nOps' = nOps + 1
    /\ lastOp' = [op |-> "savePlanStart", applied |-> currentPlan # Null]
    /\ IF currentPlan = Null
       THEN UNCHANGED <<isLoading, error, reqs, nReqs>>
       ELSE /\ isLoading' = TRUE
            /\ error' = FALSE
            /\ reqs' = reqs \cup {newReq("save", currentPlan.id, currentPlan.id,
                                         planToSave(currentPlan))}
            /\ nReqs' = nReqs + 1
    /\ UNCHANGED <<currentPlan, savedPlans, history, db, trail>>
    /\ UNCHANGED calculator

\* loadPlan, lines 517-524
loadPlanStart(planId) ==
    /\ nOps < MaxOps
    /\ nOps' = nOps + 1
    /\ lastOp' = [op |-> "loadPlanStart", planId |-> planId]
    /\ isLoading' = TRUE
    /\ error' = FALSE
    /\ reqs' = reqs \cup {newReq("load", planId, "", Null)}
    /\ nReqs' = nReqs + 1
    /\ UNCHANGED <<currentPlan, savedPlans, history, db, trail>>
    /\ UNCHANGED calculator

\* deletePlan, lines 652-661
deletePlanStart(planId) ==
    /\ nOps < MaxOps
    /\ nOps' = nOps + 1
    /\ lastOp' = [op |-> "deletePlanStart", planId |-> planId]
    /\ isLoading' = TRUE
    /\ error' = FALSE
    /\ reqs' = reqs \cup {newReq("delete", planId, "", Null)}
    /\ nReqs' = nReqs + 1
    /\ UNCHANGED <<currentPlan, savedPlans, history, db, trail>>
    /\ UNCHANGED calculator

reply(r, phase, json) == (reqs \ {r}) \cup {[r EXCEPT !.phase = phase, !.json = json]}

foodsKnown(d, items) == \A i \in 1..Len(items) : IsSome(dbFood(d, items[i].foodItemId))

\* POST /api/mealplans (mealplans/route.ts 76-193)
routePost(r) ==
    /\ r.kind = "save" /\ r.phase = "sent" /\ r.capturedId = ""
    /\ db.nextId <= Len(PlanIdSeq)
    /\ IF validBody(r.body) /\ foodsKnown(db, r.body.items)
       THEN LET row == planRow(db, PlanIdSeq[db.nextId], r.body) IN
            /\ db' = [db EXCEPT !.plans = @ \cup {row}, !.nextId = @ + 1]
            /\ reqs' = reply(r, "ok", planJson(db, row))
       ELSE /\ reqs' = reply(r, "fail", Null)
            /\ UNCHANGED db
    /\ lastOp' = [op |-> "POST", rid |-> r.rid, body |-> r.body,
                  status |-> IF validBody(r.body) /\ foodsKnown(db, r.body.items) THEN 201 ELSE 400,
                  planId |-> PlanIdSeq[db.nextId]]
    /\ UNCHANGED <<store, nOps, nReqs, trail>>
    /\ UNCHANGED calculator

\* PUT /api/mealplans/:id (mealplans/[id]/route.ts 87-234)
routePut(r) ==
    /\ r.kind = "save" /\ r.phase = "sent" /\ r.capturedId # ""
    /\ IF validBody(r.body) /\ dbPlan(db, r.planId) # {} /\ foodsKnown(db, r.body.items)
       THEN LET row == planRow(db, r.planId, r.body) IN
            /\ db' = [db EXCEPT !.plans = (@ \ dbPlan(db, r.planId)) \cup {row}]
            /\ reqs' = reply(r, "ok", planJson(db, row))
       ELSE /\ reqs' = reply(r, "fail", Null)
            /\ UNCHANGED db
    /\ lastOp' = [op |-> "PUT", rid |-> r.rid, body |-> r.body,
                  status |-> IF ~validBody(r.body) THEN 400
                             ELSE IF dbPlan(db, r.planId) = {} THEN 404
                             ELSE IF ~foodsKnown(db, r.body.items) THEN 400 ELSE 200,
                  planId |-> r.planId]
    /\ UNCHANGED <<store, nOps, nReqs, trail>>
    /\ UNCHANGED calculator

\* The second create route, POST /api/mealPlans (mealPlans/route.ts 79-188).
\* The planner store never calls it; its requests come from outside the store
\* and are drawn from MealPlansBodies.  Its item schema (lines 7-17) has no
\* numberOfMeals, and its total is cost * totalQuantity (lines 132-135).
MealPlansBodies ==
    { [ name |-> "A", durationDays |-> 7, mealsPerDay |-> 2,
        items |-> << [ foodItemId |-> id, quantityPerMeal |-> DecInt(200),
                       totalQuantity |-> DecInt(2800) ] >> ] : id \in {"f1", "f9"} }

mealPlansValidBody(body) ==
    /\ body.name # ""
    /\ body.durationDays > 0
    /\ body.mealsPerDay > 0
    /\ \A i \in 1..Len(body.items) :
           body.items[i].quantityPerMeal.n > 0 /\ body.items[i].totalQuantity.n > 0

RECURSIVE mealPlansTotalCost(_, _)
mealPlansTotalCost(d, items) ==
    IF items = <<>> THEN DecInt(0)
    ELSE LET item     == items[Len(items)]
             foodItem == Val(dbFood(d, item.foodItemId))
         IN  DAdd(mealPlansTotalCost(d, SubSeq(items, 1, Len(items) - 1)),
                  DMul(foodItem.cost, item.totalQuantity))

RECURSIVE mealPlansItemRows(_)
mealPlansItemRows(items) ==
    IF items = <<>> THEN <<>>
    ELSE LET item == items[Len(items)]
         IN  Append(mealPlansItemRows(SubSeq(items, 1, Len(items) - 1)),
                    [ foodItemId      |-> item.foodItemId,
                      quantityPerMeal |-> Round2(item.quantityPerMeal),
                      totalQuantity   |-> Round2(item.totalQuantity),
                      numberOfMeals   |-> None ])

routePostMealPlans(body) ==
    /\ nOps < MaxOps
    /\ nOps' = nOps + 1
    /\ db.nextId <= Len(PlanIdSeq)
    /\ IF mealPlansValidBody(body) /\ foodsKnown(db, body.items)
       THEN /\ db' = [db EXCEPT
                         !.plans = @ \cup {[ id           |-> PlanIdSeq[db.nextId],
                                             name         |-> body.name,
                                             durationDays |-> body.durationDays,
                                             mealsPerDay  |-> body.mealsPerDay,
                                             totalCost    |-> Round2(mealPlansTotalCost(db, body.items)),
                                             items        |-> mealPlansItemRows(body.items) ]},
                         !.nextId = @ + 1]
            /\ lastOp' = [op |-> "POST mealPlans", body |-> body, status |-> 201,
                          planId |-> PlanIdSeq[db.nextId]]
       ELSE /\ UNCHANGED db
            /\ lastOp' = [op |-> "POST mealPlans", body |-> body, status |-> 400, planId |-> ""]
    /\ UNCHANGED <<store, reqs, nReqs, trail>>
    /\ UNCHANGED calculator

\* GET /api/mealplans/:id (mealplans/[id]/route.ts 51-85)
routeGet(r) ==
    /\ r.kind = "load" /\ r.phase = "sent"
    /\ reqs' = IF dbPlan(db, r.planId) # {}
               THEN reply(r, "ok", planJson(db, CHOOSE row \in dbPlan(db, r.planId) : TRUE))
               ELSE reply(r, "fail", Null)
    /\ lastOp' = [op |-> "GET", rid |-> r.rid]
    /\ UNCHANGED <<store, db, nOps, nReqs, trail>>
    /\ UNCHANGED calculator

\* DELETE /api/mealplans/:id (mealplans/[id]/route.ts 236-268)
routeDelete(r) ==
    /\ r.kind = "delete" /\ r.phase = "sent"
    /\ IF dbPlan(db, r.planId) # {}
       THEN /\ db' = [db EXCEPT !.plans = @ \ dbPlan(db, r.planId)]
            /\ reqs' = reply(r, "ok", Null)
       ELSE /\ reqs' = reply(r, "fail", Null)
            /\ UNCHANGED db
    /\ lastOp' = [op |-> "DELETE", rid |-> r.rid]
    /\ UNCHANGED <<store, nOps, nReqs, trail>>
    /\ UNCHANGED calculator

\* PATCH /api/inventory/:id (inventory/route.ts 189-243) with a new cost,
\* sent from the inventory page; the step is taken when it changes the cost
routePatchFood(foodItemId, cost) ==
    /\ db.cost[foodItemId] # cost
    /\ db' = [db EXCEPT !.cost[foodItemId] = cost]
    /\ lastOp' = [op |-> "PATCH", foodItemId |-> foodItemId]
    /\ UNCHANGED <<store, reqs, nOps, nReqs, trail>>
    /\ UNCHANGED calculator

\* fetch rejects, or the route answers 500 from its catch block
requestFails(r) ==
    /\ r.phase = "sent"
    /\ reqs' = reply(r, "fail", Null)
    /\ lastOp' = [op |-> "requestFails", rid |-> r.rid]
    /\ UNCHANGED <<store, db, nOps, nReqs, trail>>
    /\ UNCHANGED calculator

\* savePlan, lines 494-499: replace the entry of savedPlans with the same id
replaceSaved(plans, plan) ==
    LET index == findIndex(plans, plan.id)
    IN  IF index # 0 THEN [plans EXCEPT ![index] = plan] ELSE plans

\* savePlanSettle whose catch block also drops the current plan
savePlanSettleDropsPlan(r) ==
    /\ r.kind = "save" /\ r.phase \in {"ok", "fail"}
    /\ reqs' = reqs \ {r}
    /\ lastOp' = [op |-> "savePlan", ok |-> r.phase = "ok", rid |-> r.rid]
    /\ IF r.phase = "ok"
       THEN LET processedPlan == savedProcessedPlan(r.json) IN
            /\ currentPlan' = processedPlan
            /\ error' = FALSE
            /\ savedPlans' = IF r.capturedId = "" THEN Push(savedPlans, processedPlan)
                             ELSE replaceSaved(savedPlans, processedPlan)
            /\ isLoading' = FALSE
            /\ history' = [past |-> Push(history.past, processedPlan), future |-> <<>>]
            /\ trail' = NoTrail
       ELSE /\ isLoading' = FALSE
            /\ error' = TRUE
            /\ currentPlan' = Null
            /\ UNCHANGED <<savedPlans, history, trail>>
    /\ UNCHANGED <<db, nOps, nReqs>>
    /\ UNCHANGED calculator

\* savePlan, lines 402-515: after the awaits
savePlanSettle(r) ==
    /\ r.kind = "save" /\ r.phase \in {"ok", "fail"}
    /\ reqs' = reqs \ {r}
    /\ lastOp' = [op |-> "savePlan", ok |-> r.phase = "ok", rid |-> r.rid]
    /\ IF r.phase = "ok"
       THEN LET processedPlan == savedProcessedPlan(r.json) IN
            /\ currentPlan' = processedPlan
            /\ error' = FALSE
            /\ savedPlans' = IF r.capturedId = "" THEN Push(savedPlans, processedPlan)
                             ELSE replaceSaved(savedPlans, processedPlan)
            /\ isLoading' = FALSE
            /\ history' = [past |-> Push(history.past, processedPlan), future |-> <<>>]
            /\ trail' = NoTrail
       ELSE /\ isLoading' = FALSE
            /\ error' = TRUE
            /\ UNCHANGED <<currentPlan, savedPlans, history, trail>>
    /\ UNCHANGED <<db, nOps, nReqs>>
    /\ UNCHANGED calculator

\* loadPlan, lines 526-603: after the awaits
loadPlanSettle(r) ==
    /\ r.kind = "load" /\ r.phase \in {"ok", "fail"}
    /\ reqs' = reqs \ {r}
    /\ lastOp' = [op |-> "loadPlan", ok |-> r.phase = "ok", rid |-> r.rid]
    /\ IF r.phase = "ok"
       THEN /\ history' = [past |-> IF currentPlan # Null THEN Push(history.past, currentPlan)
                                    ELSE history.past,
                           future |-> <<>>]
            /\ currentPlan' = loadedProcessedPlan(r.json)
            /\ isLoading' = FALSE
            /\ error' = FALSE
            /\ trail' = NoTrail
            /\ UNCHANGED savedPlans
       ELSE /\ isLoading' = FALSE
            /\ error' = TRUE
            /\ UNCHANGED <<currentPlan, savedPlans, history, trail>>
    /\ UNCHANGED <<db, nOps, nReqs>>
    /\ UNCHANGED calculator

\* deletePlan, lines 663-689: after the awaits
deletePlanSettle(r) ==
    /\ r.kind = "delete" /\ r.phase \in {"ok", "fail"}
    /\ reqs' = reqs \ {r}
    /\ lastOp' = [op |-> "deletePlan", ok |-> r.phase = "ok", rid |-> r.rid]
    /\ IF r.phase = "ok"
       THEN /\ savedPlans' = SelectSeq(savedPlans, LAMBDA plan : plan.id # r.planId)
            /\ currentPlan' = IF currentPlan # Null /\ currentPlan.id = r.planId
                              THEN Null ELSE currentPlan
            /\ isLoading' = FALSE
            /\ error' = FALSE
            /\ trail' = IF currentPlan' = currentPlan THEN trail ELSE NoTrail
            /\ UNCHANGED history
       ELSE /\ isLoading' = FALSE
            /\ error' = TRUE
            /\ UNCHANGED <<currentPlan, savedPlans, history, trail>>
    /\ UNCHANGED <<db, nOps, nReqs>>
    /\ UNCHANGED calculator

-----------------------------------------------------------------------------

Next ==
    \/ \E name \in {None} : createNewPlan([name |-> name, durationDays |-> None, mealsPerDay |-> None])
    \/ \E f \in Foods, q \in AddQuantities, n \in MealCountArgs : addFoodItem(f, q, n)
    \/ \E id \in ItemIds, q \in Quantities : updateFoodItemQuantity(id, q)
    \/ \E id \in ItemIds, n \in MealCounts : updateFoodItemMealCount(id, n)
    \/ \E id \in ItemIds : removeFoodItem(id)
    \/ \E u \in PlanUpdates : updatePlanDetails(u)
    \/ undo
    \/ redo
    \/ clearHistory
    \/ savePlanStart
    \/ \E id \in PlanIds : loadPlanStart(id)
    \/ \E id \in PlanIds : deletePlanStart(id)
    \/ \E r \in reqs : routePost(r)
    \/ \E r \in reqs : routePut(r)
    \/ \E r \in reqs : routeGet(r)
    \/ \E r \in reqs : routeDelete(r)
    \/ \E body \in MealPlansBodies : routePostMealPlans(body)
    \/ \E id \in RepricedFoodIds, c \in NewCosts : routePatchFood(id, c)
    \/ \E r \in reqs : requestFails(r)
    \/ \E r \in reqs : savePlanSettle(r)
    \/ \E r \in reqs : loadPlanSettle(r)
    \/ \E r \in reqs : deletePlanSettle(r)

Spec == Init /\ [][Next]_vars

-----------------------------------------------------------------------------
(* loadPlan as a function of the record it receives.  loadPlan converts      *)
(* whatever `await response.json()` yields (line 531) and guards against an  *)
(* item without its foodItem (line 541).  GET /api/mealplans/:id includes    *)
(* the food of every item, so Spec never delivers such a record; here the    *)
(* record is an input: a plan whose items may name a food id, "f9", that     *)
(* has no FoodItem row, so that the item arrives without a foodItem.         *)

RecordFoodIds == FoodIds \cup {"f9"}

\* the FoodItem table with the catalogue's costs, and no plan
catalogueDb ==
    [plans |-> {}, cost |-> [id \in FoodIds |-> (CHOOSE f \in Foods : f.id = id).cost],
     nextId |-> 1]

RecordRows ==
    [ foodItemId      : RecordFoodIds,
      quantityPerMeal : {DecInt(100), DecInt(200)},
      totalQuantity   : {DecInt(600)},
      numberOfMeals   : {None, Some(3)} ]

RecordItems == {<<>>} \cup {<<a>> : a \in RecordRows} \cup {<<a, b>> : a, b \in RecordRows}

Records ==
    { [ id |-> "p1", name |-> "A", durationDays |-> 7, mealsPerDay |-> 2,
        totalCost |-> DecInt(6), items |-> itemsJson(catalogueDb, rows) ] : rows \in RecordItems }

\* loadPlan has been called on the fresh store and the response has arrived
InitLoadRecord ==
    /\ currentPlan = Null
    /\ savedPlans = <<>>
    /\ history = [past |-> <<>>, future |-> <<>>]
    /\ isLoading = TRUE
    /\ error = FALSE
    /\ db = catalogueDb
    /\ \E record \in Records :
           reqs = {[ rid |-> 1, kind |-> "load", phase |-> "ok", planId |-> "p1",
                     capturedId |-> "", body |-> Null, json |-> record ]}
    /\ nOps = 1
    /\ nReqs = 1
    /\ lastOp = [op |-> "loadPlanStart", planId |-> "p1"]
    /\ trail = NoTrail
    /\ calculator = calculatorDefault

NextLoadRecord == \E r \in reqs : loadPlanSettle(r)

SpecLoadRecord == InitLoadRecord /\ [][NextLoadRecord]_vars

-----------------------------------------------------------------------------
(* The portion calculator on its own: the user fills in the form and         *)
(* changes the unit settings; the planner store is not involved.             *)

planner == <<currentPlan, savedPlans, history, isLoading, error, db, reqs, nOps, nReqs,
             lastOp, trail>>

\* register('weight'), line 262
changeWeight(weight) ==
    /\ calculator' = rendered([calculator EXCEPT !.weight = weight])
    /\ UNCHANGED planner

\* register('age'), line 284
changeAge(age) ==
    /\ calculator' = rendered([calculator EXCEPT !.age = age])
    /\ UNCHANGED planner

\* register('activityLevel'), line 302
changeActivityLevel(activityLevel) ==
    /\ calculator' = rendered([calculator EXCEPT !.activityLevel = activityLevel])
    /\ UNCHANGED planner

\* register('mealsPerDay'), line 338
changeMealsPerDay(mealsPerDay) ==
    /\ calculator' = rendered([calculator EXCEPT !.mealsPerDay = mealsPerDay])
    /\ UNCHANGED planner

\* updatePreference(key, value) of the preferences store, for the two unit
\* settings the calculator reads (line 73)
updatePreference(key, value) ==
    /\ calculator' = rendered([calculator EXCEPT ![key] = value])
    /\ UNCHANGED planner

NextPortion ==
    \/ \E weight \in WeightFields : changeWeight(weight)
    \/ \E age \in AgeFields : changeAge(age)
    \/ \E activityLevel \in ActivityLevels : changeActivityLevel(activityLevel)
    \/ \E mealsPerDay \in MealsPerDayFields : changeMealsPerDay(mealsPerDay)
    \/ \E weightUnit \in WeightUnits : updatePreference("weightUnit", weightUnit)
    \/ \E measureUnit \in MeasureUnits : updatePreference("measureUnit", measureUnit)

SpecPortion == Init /\ [][NextPortion]_vars

-----------------------------------------------------------------------------
(* recalculateTotalCost in decimal.js's own arithmetic.  Each Decimal        *)
(* operation rounds its result to Decimal.precision significant digits, so   *)
(* for a food whose cost / weight does not terminate (10 for 3000 g) the     *)
(* item costs carry 20 digits and a sum of them is rounded again.  Here the  *)
(* plan's items come from such foods; the plan is taken at the point where   *)
(* an edit has placed its items and calls recalculateTotalCost (lines 646,   *)
(* 764, 814, 859, 881), its totalCost still being that of the items before.  *)

\* x.add(y): the exact sum rounded to Precision significant digits
plus(x, y) ==
    LET e == IF x.e > y.e THEN x.e ELSE y.e
    IN  toPrecision(Big(addNat(zeros(e - x.e) \o x.m, zeros(e - y.e) \o y.m, 0), e))

\* foods of the catalogue with their package weight in grams and their cost
PricedFoods ==
    { [id |-> "g1", weight |-> 3000, cost |-> Decimal(<<1, 0>>, 0)],
      [id |-> "g2", weight |-> 3000, cost |-> Decimal(<<2, 0>>, 0)],
      [id |-> "g3", weight |-> 2000, cost |-> Decimal(<<2, 0, 0, 0>>, 0)],
      [id |-> "g4", weight |-> 2000, cost |-> Decimal(<<2, 0>>, 0)],
      [id |-> "g5", weight |-> 700,  cost |-> Decimal(<<5>>, 0)] }

\* addFoodItem, lines 709-718: the total quantity and the cost of an item
pricedItem(foodItem, quantityPerMeal, mealCount) ==
    LET totalQuantity == mul(quantityPerMeal, Big(digitsOf(mealCount), 0))
        costPerUnit   == div(foodItem.cost, foodItem.weight)
    IN  [ id            |-> foodItem.id,
          totalQuantity |-> totalQuantity,
          totalCost     |-> mul(costPerUnit, totalQuantity) ]

\* 100 g of each food in 10 meals
PricedItems == {pricedItem(f, Decimal(<<1, 0, 0>>, 0), 10) : f \in PricedFoods}

MaxPricedItems == 3

\* the item lists: up to MaxPricedItems different items, in every order
PricedItemLists ==
    UNION {{items \in [1..n -> PricedItems] : \A i, j \in 1..n : items[i] = items[j] => i = j}
           : n \in 0..MaxPricedItems}

\* lines 958-961: items.reduce((total, item) => total.add(item.totalCost), new Decimal(0))
RECURSIVE reduceTotalCost(_)
reduceTotalCost(items) ==
    IF items = <<>> THEN Big(<<>>, 0)
    ELSE plus(reduceTotalCost(SubSeq(items, 1, Len(items) - 1)), items[Len(items)].totalCost)

InitRecalculate ==
    /\ \E items \in PricedItemLists :
          currentPlan = [emptyPlan([name |-> None, durationDays |-> None, mealsPerDay |-> None])
                            EXCEPT !.items = items,
                                   !.totalCost = reduceTotalCost(SubSeq(items, 1, Len(items) - 1))]
    /\ savedPlans = <<>>
    /\ history = [past |-> <<>>, future |-> <<>>]
    /\ isLoading = FALSE
    /\ error = FALSE
    /\ db = [plans |-> {}, cost |-> [id \in FoodIds |-> (CHOOSE f \in Foods : f.id = id).cost],
             nextId |-> 1]
    /\ reqs = {}
    /\ nOps = 0
    /\ nReqs = 0
    /\ lastOp = [op |-> "init"]
    /\ trail = NoTrail
    /\ calculator = calculatorDefault

\* recalculateTotalCost(state.currentPlan), lines 957-962
recalculateTotalCostCall ==
    /\ currentPlan' = [currentPlan EXCEPT !.totalCost = reduceTotalCost(currentPlan.items)]
    /\ lastOp' = [op |-> "recalculateTotalCost"]
    /\ UNCHANGED <<savedPlans, history, isLoading, error, db, reqs, nOps, nReqs, trail, calculator>>

NextRecalculate == recalculateTotalCostCall

SpecRecalculate == InitRecalculate /\ [][NextRecalculate]_vars

-----------------------------------------------------------------------------
(* Saving one never-persisted plan.  The store holds the plan createNewPlan  *)
(* has just made on the fresh store; from there the user only adds items to  *)
(* it and saves it, so every save request is a save of that one plan.        *)

InitSavePlan ==
    /\ currentPlan = emptyPlan([name |-> None, durationDays |-> None, mealsPerDay |-> None])
    /\ savedPlans = <<>>
    /\ history = [past |-> <<>>, future |-> <<>>]
    /\ isLoading = FALSE
    /\ error = FALSE
    /\ db = [plans |-> {}, cost |-> [id \in FoodIds |-> (CHOOSE f \in Foods : f.id = id).cost],
             nextId |-> 1]
    /\ reqs = {}
    /\ nOps = 1
    /\ nReqs = 0
    /\ lastOp = [op |-> "createNewPlan",
                 initialData |-> [name |-> None, durationDays |-> None, mealsPerDay |-> None]]
    /\ trail = NoTrail
    /\ calculator = calculatorDefault

NextSavePlan ==
    \/ \E f \in Foods, q \in AddQuantities, n \in MealCountArgs : addFoodItem(f, q, n)
    \/ savePlanStart
    \/ \E r \in reqs : routePost(r)
    \/ \E r \in reqs : routePut(r)
    \/ \E r \in reqs : requestFails(r)
    \/ \E r \in reqs : savePlanSettle(r)

SpecSavePlan == InitSavePlan /\ [][NextSavePlan]_vars

-----------------------------------------------------------------------------
(* Loading stored plans.  Storage holds two plans, "A" (p1) and "B" (p2),    *)
(* as earlier saves of the planner left them; the store is fresh and the     *)
(* user loads plans, also while an earlier load is still in flight.          *)

StoredPlanIds == {"p1", "p2"}

\* the body savePlan sent for a new plan of that name with one item
storedBody(name, foodItem) ==
    planToSave(addFoodItemPlan(
        emptyPlan([name |-> Some(name), durationDays |-> None, mealsPerDay |-> None]),
        foodItem, DecInt(200), None))

storedDb ==
    [ catalogueDb EXCEPT
        !.plans = { planRow(catalogueDb, "p1",
                            storedBody("A", CHOOSE f \in Foods : f.id = "f1")),
                    planRow(catalogueDb, "p2",
                            storedBody("B", CHOOSE f \in Foods : f.id = "f2")) },
        !.nextId = 3 ]

InitLoadPlan ==
    /\ currentPlan = Null
    /\ savedPlans = <<>>
    /\ history = [past |-> <<>>, future |-> <<>>]
    /\ isLoading = FALSE
    /\ error = FALSE
    /\ db = storedDb
    /\ reqs = {}
    /\ nOps = 1
    /\ nReqs = 0
    /\ lastOp = [op |-> "init"]
    /\ trail = NoTrail
    /\ calculator = calculatorDefault

NextLoadPlan ==
    \/ \E id \in StoredPlanIds : loadPlanStart(id)
    \/ \E r \in reqs : routeGet(r)
    \/ \E r \in reqs : requestFails(r)
    \/ \E r \in reqs : loadPlanSettle(r)

SpecLoadPlan == InitLoadPlan /\ [][NextLoadPlan]_vars

-----------------------------------------------------------------------------
(* The planner at mount (src/components/planner/MealPlanner.tsx 67-83): one  *)
(* effect starts fetchAvailableDogs, fetchAvailableFoods and fetchSavedPlans *)
(* together, another creates a new plan when there is none and isLoading is  *)
(* false.  The lists availableDogs and availableFoods are not part of the    *)
(* model; of those two fetches the model keeps what they do to isLoading and *)
(* error.  Storage holds the two plans of storedDb.                          *)

FetchKinds == {"dogs", "foods", "plans"}

\* a fetch at its await, lines 135, 179 and 225
fetchReq(rid, kind) ==
    [ rid |-> rid, kind |-> kind, phase |-> "sent", planId |-> "", capturedId |-> "",
      body |-> Null, json |-> Null ]

\* MealPlanner.tsx 68-72; each fetch runs to its first await (part_005
\* 128-135, 172-179, 218-225)
loadInitialData ==
    /\ nReqs = 0
    /\ isLoading' = TRUE
    /\ error' = FALSE
    /\ reqs' = reqs \cup {fetchReq(1, "dogs"), fetchReq(2, "foods"), fetchReq(3, "plans")}
    /\ nReqs' = 3
    /\ lastOp' = [op |-> "loadInitialData"]
    /\ UNCHANGED <<currentPlan, savedPlans, history, db, nOps, trail>>
    /\ UNCHANGED calculator

\* MealPlanner.tsx 75-83
createPlanIfNone ==
    /\ currentPlan = Null /\ ~isLoading
    /\ createNewPlan([name |-> Some("New Meal Plan"), durationDays |-> Some(7),
                      mealsPerDay |-> Some(DefaultMealsPerDay)])

\* GET /api/dogs and GET /api/inventory answering 200
routeGetList(r) ==
    /\ r.kind \in {"dogs", "foods"} /\ r.phase = "sent"
    /\ reqs' = reply(r, "ok", Null)
    /\ lastOp' = [op |-> "GET list", rid |-> r.rid]
    /\ UNCHANGED <<store, db, nOps, nReqs, trail>>
    /\ UNCHANGED calculator

\* the order of findMany's orderBy createdAt desc: the newest plan first
RECURSIVE newestFirst(_)
newestFirst(rows) ==
    IF rows = {} THEN <<>>
    ELSE LET newest == CHOOSE row \in rows :
                          \A other \in rows :
                             \E i, j \in 1..Len(PlanIdSeq) :
                                /\ PlanIdSeq[i] = row.id /\ PlanIdSeq[j] = other.id /\ j <= i
         IN  <<newest>> \o newestFirst(rows \ {newest})

\* GET /api/mealplans (mealplans/route.ts 50-74)
routeGetMealPlans(r) ==
    /\ r.kind = "plans" /\ r.phase = "sent"
    /\ LET rows == newestFirst(db.plans)
       IN  reqs' = reply(r, "ok", [plans |-> [i \in 1..Len(rows) |-> planJson(db, rows[i])]])
    /\ lastOp' = [op |-> "GET mealplans", rid |-> r.rid]
    /\ UNCHANGED <<store, db, nOps, nReqs, trail>>
    /\ UNCHANGED calculator

\* fetchAvailableDogs 137-169 and fetchAvailableFoods 181-215: after the awaits
fetchSettle(r) ==
    /\ r.kind \in {"dogs", "foods"} /\ r.phase \in {"ok", "fail"}
    /\ reqs' = reqs \ {r}
    /\ lastOp' = [op |-> "fetch", kind |-> r.kind, ok |-> r.phase = "ok", rid |-> r.rid]
    /\ isLoading' = FALSE
    /\ error' = IF r.phase = "ok" THEN error ELSE TRUE
    /\ UNCHANGED <<currentPlan, savedPlans, history, db, nOps, nReqs, trail>>
    /\ UNCHANGED calculator

\* fetchSavedPlans 227-323: after the awaits
fetchSavedPlansSettle(r) ==
    /\ r.kind = "plans" /\ r.phase \in {"ok", "fail"}
    /\ reqs' = reqs \ {r}
    /\ lastOp' = [op |-> "fetch", kind |-> r.kind, ok |-> r.phase = "ok", rid |-> r.rid]
    /\ isLoading' = FALSE
    /\ IF r.phase = "ok"
       THEN /\ savedPlans' = [i \in 1..Len(r.json.plans) |-> loadedProcessedPlan(r.json.plans[i])]
            /\ error' = FALSE
       ELSE /\ savedPlans' = <<>>
            /\ error' = TRUE
    /\ UNCHANGED <<currentPlan, history, db, nOps, nReqs, trail>>
    /\ UNCHANGED calculator

InitMount ==
    /\ currentPlan = Null
    /\ savedPlans = <<>>
    /\ history = [past |-> <<>>, future |-> <<>>]
    /\ isLoading = FALSE
    /\ error = FALSE
    /\ db = storedDb
    /\ reqs = {}
    /\ nOps = 0
    /\ nReqs = 0
    /\ lastOp = [op |-> "init"]
    /\ trail = NoTrail
    /\ calculator = calculatorDefault

NextMount ==
    \/ loadInitialData
    \/ createPlanIfNone
    \/ \E r \in reqs : routeGetList(r)
    \/ \E r \in reqs : routeGetMealPlans(r)
    \/ \E r \in reqs : requestFails(r)
    \/ \E r \in reqs : fetchSettle(r)
    \/ \E r \in reqs : fetchSavedPlansSettle(r)

SpecMount == InitMount /\ [][NextMount]_vars

-----------------------------------------------------------------------------
(* DELETE /api/dogs/:id (src/unnamed/part_002 126-176) next to the creation  *)
(* of meal plans.  Here db holds the Dog table (id and owner) and, of each   *)
(* MealPlan row, its id and its dogId.  The handler awaits the session, the  *)
(* ownership lookup, the lookup of the dog's meal plans and the delete;      *)
(* other requests run between these awaits.  MealPlan.dog is an optional     *)
(* relation declared without onDelete (prisma/schema.prisma 144), for which  *)
(* Prisma's referential action is SetNull: deleting a dog clears the dogId   *)
(* of the plans that name it.                                                *)

Dogs ==
    { [id |-> "d1", userId |-> "u1"],
      [id |-> "d2", userId |-> "u1"],
      [id |-> "d3", userId |-> "u2"] }

\* the ids DELETE is called with ("d9" is no dog) and the sessions it runs in
DogIdArgs == {"d1", "d2", "d3", "d9"}
Sessions == {None, Some("u1")}
PlanDogIds == {"d1"}

dogRow(d, id) == {dog \in d.dogs : dog.id = id}

\* prisma.mealPlan.findMany({ where: { dogId: id } }), lines 148-150
dogMealPlans(d, id) == {plan \in d.plans : plan.dogId = Some(id)}

InitDogs ==
    /\ currentPlan = Null
    /\ savedPlans = <<>>
    /\ history = [past |-> <<>>, future |-> <<>>]
    /\ isLoading = FALSE
    /\ error = FALSE
    /\ db = [dogs |-> Dogs, plans |-> {[id |-> "p1", dogId |-> Some("d2")]}, nextId |-> 2]
    /\ reqs = {}
    /\ nOps = 0
    /\ nReqs = 0
    /\ lastOp = [op |-> "init"]
    /\ trail = NoTrail
    /\ calculator = calculatorDefault

client == <<currentPlan, savedPlans, history, isLoading, error, trail, calculator>>

\* a DELETE request arrives
deleteDogStart(id, session) ==
    /\ nOps < MaxOps
    /\ nOps' = nOps + 1
    /\ nReqs' = nReqs + 1
    /\ reqs' = reqs \cup {[rid |-> nReqs + 1, kind |-> "deleteDog", phase |-> "verify",
                           dogId |-> id, session |-> session]}
    /\ lastOp' = [op |-> "deleteDogStart", dogId |-> id]
    /\ UNCHANGED <<db, client>>

answered(r, status) ==
    /\ reqs' = reqs \ {r}
    /\ lastOp' = [op |-> "DELETE dog", rid |-> r.rid, dogId |-> r.dogId, status |-> status]

\* lines 132-145 with verifyDogOwnership, lines 29-43
deleteDogVerify(r) ==
    /\ r.kind = "deleteDog" /\ r.phase = "verify"
    /\ IF ~IsSome(r.session) THEN answered(r, 401)
       ELSE IF dogRow(db, r.dogId) = {} THEN answered(r, 404)
       ELSE IF \E dog \in dogRow(db, r.dogId) : dog.userId # Val(r.session) THEN answered(r, 403)
       ELSE /\ reqs' = (reqs \ {r}) \cup {[r EXCEPT !.phase = "check"]}
            /\ lastOp' = [op |-> "verifyDogOwnership", rid |-> r.rid]
    /\ UNCHANGED <<db, nOps, nReqs, client>>

\* lines 147-157
deleteDogCheck(r) ==
    /\ r.kind = "deleteDog" /\ r.phase = "check"
    /\ IF dogMealPlans(db, r.dogId) # {} THEN answered(r, 400)
       ELSE /\ reqs' = (reqs \ {r}) \cup {[r EXCEPT !.phase = "delete"]}
            /\ lastOp' = [op |-> "findMany", rid |-> r.rid]
    /\ UNCHANGED <<db, nOps, nReqs, client>>

\* lines 166-175: the delete, which throws when the dog is gone
deleteDogDelete(r) ==
    /\ r.kind = "deleteDog" /\ r.phase = "delete"
    /\ IF dogRow(db, r.dogId) = {}
       THEN /\ answered(r, 500)
            /\ UNCHANGED db
       ELSE /\ answered(r, 200)
            /\ db' = [db EXCEPT
                        !.dogs  = @ \ dogRow(db, r.dogId),
                        !.plans = {IF plan.dogId = Some(r.dogId)
                                   THEN [plan EXCEPT !.dogId = None] ELSE plan : plan \in @}]
    /\ UNCHANGED <<nOps, nReqs, client>>

\* POST /api/mealplans with a dogId (mealplans/route.ts 85-95, 153-176): the
\* create fails on the foreign key when there is no such dog
routePostForDog(dogId) ==
    /\ nOps < MaxOps
    /\ nOps' = nOps + 1
    /\ db.nextId <= Len(PlanIdSeq)
    /\ IF dogRow(db, dogId) # {}
       THEN /\ db' = [db EXCEPT !.plans = @ \cup {[id |-> PlanIdSeq[db.nextId],
                                                   dogId |-> Some(dogId)]},
                                !.nextId = @ + 1]
            /\ lastOp' = [op |-> "POST", dogId |-> dogId, status |-> 201]
       ELSE /\ UNCHANGED db
            /\ lastOp' = [op |-> "POST", dogId |-> dogId, status |-> 500]
    /\ UNCHANGED <<reqs, nReqs, client>>

NextDogs ==
    \/ \E id \in DogIdArgs, session \in Sessions : deleteDogStart(id, session)
    \/ \E r \in reqs : deleteDogVerify(r)
    \/ \E r \in reqs : deleteDogCheck(r)
    \/ \E r \in reqs : deleteDogDelete(r)
    \/ \E dogId \in PlanDogIds : routePostForDog(dogId)

SpecDogs == InitDogs /\ [][NextDogs]_vars

-----------------------------------------------------------------------------
(* Properties *)

ItemEditOps == {"addFoodItem", "updateFoodItemQuantity", "updateFoodItemMealCount",
                "removeFoodItem"}
EditOps == ItemEditOps \cup {"updatePlanDetails"}

\* the last step was an operation of `ops` that ran on a plan
After(ops) == lastOp.op \in ops /\ currentPlan # Null

\* the last step was an edit of `ops` that found its plan and its item
Applied(ops) == lastOp.op \in ops /\ lastOp.applied

slots(plan) == plan.durationDays * plan.mealsPerDay

itemsOf(plan) == {plan.items[i] : i \in 1..Len(plan.items)}

\* C1 (sum invariant): after addFoodItem, updateFoodItemQuantity,
\* updateFoodItemMealCount, removeFoodItem, updatePlanDetails, undo or redo on
\* a current plan, currentPlan.totalCost is the sum of its items' totalCost.
C1_SumInvariant ==
    After(EditOps \cup {"undo", "redo"}) =>
        currentPlan.totalCost = SumCost(currentPlan.items)

C3_RoundTrip ==
    LET n == Len(trail.plans) - 1 IN
    (trail.ok /\ n >= 1 /\ trail.undos = n) =>
        /\ trail.redos = 0 => currentPlan = trail.plans[1]
        /\ trail.redos = n => currentPlan = trail.plans[n + 1]

\* C4 (undo checkpoint): every applied edit leaves on top of history.past the
\* plan as it was before the edit, and leaves history.future empty.
C4_Checkpoint ==
    [][(lastOp'.op \in EditOps /\ lastOp'.applied) =>
          /\ history'.past # <<>>
          /\ Top(history'.past) = currentPlan
          /\ history'.future = <<>>]_vars

\* C5 (derived fields): in every reachable state every item of the current plan
\* has totalQuantity = quantityPerMeal * numberOfMeals and
\* totalCost = (cost / weight) * totalQuantity.
C5_DerivedFields ==
    currentPlan # Null =>
        \A item \in itemsOf(currentPlan) :
            /\ item.totalQuantity = DMul(item.quantityPerMeal, DecInt(item.numberOfMeals))
            /\ item.totalCost = DMul(DDiv(item.cost, item.weight), item.totalQuantity)

\* C6 (addFoodItem): on a plan with S slots the operation appends exactly one
\* item, with numberOfMeals S when the count is omitted and min(n, S) otherwise,
\* totalQuantity q * numberOfMeals and totalCost (cost / weight) * totalQuantity;
\* weight 2000, cost 20, q 200, n 14 on 14 slots give 2800 and 28; the items
\* present before are unchanged.
C6_AddFoodItem ==
    [][(lastOp'.op = "addFoodItem" /\ lastOp'.applied) =>
          LET S     == slots(currentPlan)
              food  == lastOp'.foodItem
              q     == lastOp'.quantityPerMeal
              n     == lastOp'.numberOfMeals
              old   == currentPlan.items
              new   == currentPlan'.items
              added == new[Len(new)]
          IN  /\ Len(new) = Len(old) + 1
              /\ SubSeq(new, 1, Len(old)) = old
              /\ added.id = food.id
              /\ added.quantityPerMeal = q
              /\ added.numberOfMeals = IF n = None THEN S ELSE Min(Val(n), S)
              /\ added.totalQuantity = DMul(q, DecInt(added.numberOfMeals))
              /\ added.totalCost = DMul(DDiv(food.cost, food.weight), added.totalQuantity)
              /\ (/\ food.weight = DecInt(2000) /\ food.cost = DecInt(20)
                  /\ q = DecInt(200) /\ n = Some(14) /\ S >= 14)
                 => /\ added.totalQuantity = DecInt(2800)
                    /\ added.totalCost = DecInt(28)]_vars

\* C6 witness: scenario A has been added next to an item already in the plan.
C6_Witness ==
    /\ Applied({"addFoodItem"})
    /\ lastOp.foodItem.id = "f1" /\ lastOp.numberOfMeals = Some(14)
    /\ Len(currentPlan.items) = 2
    /\ Top(currentPlan.items).totalQuantity = DecInt(2800)
    /\ Top(currentPlan.items).totalCost = DecInt(28)

\* C7 (schedule cascade): updatePlanDetails changing durationDays and/or
\* mealsPerDay to S' slots sets every item's numberOfMeals to min(old, S'),
\* keeps quantityPerMeal, recomputes a clamped item's totalQuantity and
\* totalCost from the clamped count and sets the plan total to the sum; an item
\* that does not exceed S' keeps its numberOfMeals and its totals.
C7_ScheduleCascade ==
    [][(/\ lastOp'.op = "updatePlanDetails" /\ lastOp'.applied
        /\ (lastOp'.updates.durationDays # None \/ lastOp'.updates.mealsPerDay # None)) =>
          LET S2  == slots(currentPlan')
              old == currentPlan.items
              new == currentPlan'.items
          IN  /\ Len(new) = Len(old)
              /\ \A i \in 1..Len(old) :
                    /\ new[i].id = old[i].id
                    /\ new[i].quantityPerMeal = old[i].quantityPerMeal
                    /\ new[i].numberOfMeals = Min(old[i].numberOfMeals, S2)
                    /\ old[i].numberOfMeals > S2 =>
                          /\ new[i].totalQuantity = DMul(old[i].quantityPerMeal, DecInt(S2))
                          /\ new[i].totalCost =
                                DMul(DDiv(old[i].cost, old[i].weight), new[i].totalQuantity)
                    /\ old[i].numberOfMeals <= S2 =>
                          /\ new[i].totalQuantity = old[i].totalQuantity
                          /\ new[i].totalCost = old[i].totalCost
              /\ currentPlan'.totalCost = SumCost(new)]_vars

\* C8 (item edits are local): updateFoodItemQuantity(id, q) changes only the
\* quantityPerMeal, totalQuantity and totalCost of the item with that id, and
\* updateFoodItemMealCount(id, n) only its numberOfMeals (to min(n, slots)),
\* totalQuantity and totalCost; the other items, the order, durationDays and
\* mealsPerDay are unchanged.
C8_ItemEditsLocal ==
    [][(lastOp'.op \in {"updateFoodItemQuantity", "updateFoodItemMealCount"}
        /\ lastOp'.applied) =>
          LET old == currentPlan.items
              new == currentPlan'.items
              k   == CHOOSE i \in 1..Len(old) :
                        /\ old[i].id = lastOp'.foodItemId
                        /\ \A j \in 1..(i - 1) : old[j].id # lastOp'.foodItemId
          IN  /\ Len(new) = Len(old)
              /\ \A i \in 1..Len(old) : i # k => new[i] = old[i]
              /\ currentPlan'.durationDays = currentPlan.durationDays
              /\ currentPlan'.mealsPerDay = currentPlan.mealsPerDay
              /\ new[k].id = old[k].id
              /\ new[k].weight = old[k].weight
              /\ new[k].cost = old[k].cost
              /\ new[k].totalQuantity = DMul(new[k].quantityPerMeal, DecInt(new[k].numberOfMeals))
              /\ new[k].totalCost = DMul(DDiv(old[k].cost, old[k].weight), new[k].totalQuantity)
              /\ lastOp'.op = "updateFoodItemQuantity" =>
                    /\ new[k].quantityPerMeal = lastOp'.quantityPerMeal
                    /\ new[k].numberOfMeals = old[k].numberOfMeals
              /\ lastOp'.op = "updateFoodItemMealCount" =>
                    /\ new[k].numberOfMeals = Min(lastOp'.mealCount, slots(currentPlan))
                    /\ new[k].quantityPerMeal = old[k].quantityPerMeal]_vars

\* C8 witness: the quantity of the second of two different items was changed.
C8_Witness ==
    /\ Applied({"updateFoodItemQuantity"})
    /\ Len(currentPlan.items) = 2
    /\ currentPlan.items[1].id # currentPlan.items[2].id
    /\ lastOp.foodItemId = currentPlan.items[2].id
    /\ currentPlan.items[2].quantityPerMeal = DecInt(100)
    /\ currentPlan.items[1].quantityPerMeal = DecInt(200)

\* C9 (removeFoodItem): removing an id the plan holds leaves the other items in
\* their order and unchanged, makes totalCost their sum, and makes it the
\* decimal zero when nothing remains.
C9_RemoveFoodItem ==
    [][(lastOp'.op = "removeFoodItem" /\ lastOp'.applied) =>
          LET old == currentPlan.items
              new == currentPlan'.items
          IN  /\ new = SelectSeq(old, LAMBDA item : item.id # lastOp'.foodItemId)
              /\ Len(new) < Len(old)
              /\ currentPlan'.totalCost = SumCost(new)
              /\ new = <<>> => currentPlan'.totalCost = DecInt(0)
              /\ currentPlan'.durationDays = currentPlan.durationDays
              /\ currentPlan'.mealsPerDay = currentPlan.mealsPerDay]_vars

\* C9 witness: one of two items has been removed and the other one remains.
C9_Witness ==
    /\ Applied({"removeFoodItem"})
    /\ Len(currentPlan.items) = 1
    /\ currentPlan.items[1].id # lastOp.foodItemId
    /\ currentPlan.totalCost = currentPlan.items[1].totalCost
    /\ DGt(currentPlan.totalCost, DecInt(0))

\* C10 (undo): undo changes nothing when history.past is empty; otherwise it
\* removes the most recent snapshot from past and that snapshot becomes the
\* current plan, also when deletePlan has cleared the current plan, and the
\* previous current plan, if there is one, is pushed onto history.future.
C10_Undo ==
    [][lastOp'.op = "undo" =>
          IF history.past = <<>>
          THEN UNCHANGED <<currentPlan, savedPlans, history, isLoading, error>>
          ELSE /\ history'.past = Pop(history.past)
               /\ currentPlan' = Top(history.past)
               /\ currentPlan # Null => history'.future = Push(history.future, currentPlan)]_vars

\* C11 (replacing the current plan records an undo point): createNewPlan with
\* a plan loaded, and every successful loadPlan, push the plan that was
\* current (if any) onto history.past and leave history.future empty;
\* createNewPlan makes the current plan an empty plan: no items, totalCost 0,
\* and durationDays 7 when the caller supplies none.
C11_ReplaceRecordsUndoPoint ==
    [][/\ (lastOp'.op = "createNewPlan" /\ currentPlan # Null) =>
              /\ history'.past = Push(history.past, currentPlan)
              /\ history'.future = <<>>
       /\ lastOp'.op = "createNewPlan" =>
              /\ currentPlan' # Null
              /\ currentPlan'.items = <<>>
              /\ currentPlan'.totalCost = DecInt(0)
              /\ ~IsSome(lastOp'.initialData.durationDays) => currentPlan'.durationDays = 7
       /\ (lastOp'.op = "loadPlan" /\ lastOp'.ok) =>
              /\ history'.past = IF currentPlan # Null THEN Push(history.past, currentPlan)
                                 ELSE history.past
              /\ history'.future = <<>>]_vars

\* C11 witness: a plan was saved, createNewPlan then replaced it by an empty
\* plan, and a successful loadPlan replaced that one: past holds the save's
\* snapshot, the saved plan and the empty plan.
C11_Witness ==
    /\ lastOp.op = "loadPlan" /\ lastOp.ok
    /\ Len(history.past) = 3
    /\ history.past[2].id = "p1"
    /\ history.past[3].id = "" /\ history.past[3].items = <<>>
    /\ history.past[3].durationDays = 7
    /\ history.future = <<>>

\* C12 (load recomputes totals from current prices): after a successful
\* loadPlan every item's totalCost is (cost / weight) * totalQuantity with the
\* cost and weight the loaded record carries, and the plan's totalCost is the
\* sum of the items' totalCost, not the stored total.
C12_LoadRecomputes ==
    (lastOp.op = "loadPlan" /\ lastOp.ok) =>
        /\ \A item \in itemsOf(currentPlan) :
               item.totalCost = DMul(DDiv(item.cost, item.weight), item.totalQuantity)
        /\ currentPlan.totalCost = SumCost(currentPlan.items)

\* C13 (failed save): a savePlan that fails (the request is rejected, the
\* route answers with a non-OK status or the answer cannot be parsed) changes
\* neither currentPlan nor history.past, history.future or savedPlans, in the
\* step that sends the request and in the step that handles the failure; the
\* failure sets error and clears isLoading.
C13_FailedSave ==
    [][/\ lastOp'.op = "savePlanStart" => UNCHANGED <<currentPlan, history, savedPlans>>
       /\ (lastOp'.op = "savePlan" /\ ~lastOp'.ok) =>
              /\ UNCHANGED <<currentPlan, history, savedPlans>>
              /\ error' = TRUE
              /\ isLoading' = FALSE]_vars

\* C13 witness: a save of a plan with an item has failed and the plan, its
\* item and the undo history are still there.
C13_Witness ==
    /\ lastOp.op = "savePlan" /\ ~lastOp.ok
    /\ currentPlan # Null /\ currentPlan.items # <<>>
    /\ history.past # <<>>
    /\ error = TRUE /\ isLoading = FALSE

\* what the next savePlan would submit of a plan, apart from its id and total
submitted(plan) ==
    [ name         |-> plan.name,
      durationDays |-> plan.durationDays,
      mealsPerDay  |-> plan.mealsPerDay,
      items        |-> itemsToSave(plan.items) ]

\* C14 (edits during a save survive): when an edit operation has been applied
\* to the current plan after savePlan sent its request and the save then
\* completes successfully, the current plan still contains the edit: the next
\* savePlan would submit the name, schedule and items of the edited plan.
C14_EditsDuringSave ==
    [][(/\ Applied(EditOps)
        /\ lastOp'.op = "savePlan" /\ lastOp'.ok)
       => /\ currentPlan' # Null
          /\ submitted(currentPlan') = submitted(currentPlan)]_vars

\* the operation `op`, started on the plan `plan`, is one the specification
\* calls invalid: a mutating operation without a current plan (NoActivePlan),
\* a quantity per meal <= 0 (InvalidQuantity), a meal count <= 0
\* (InvalidMealCount), or an update of an item the plan does not hold
\* (ItemNotFound)
invalidOperation(op, plan) ==
    \/ op.op \in EditOps /\ plan = Null
    \/ op.op \in {"addFoodItem", "updateFoodItemQuantity"} /\ op.quantityPerMeal.n <= 0
    \/ op.op = "addFoodItem" /\ IsSome(op.numberOfMeals) /\ Val(op.numberOfMeals) <= 0
    \/ op.op = "updateFoodItemMealCount" /\ op.mealCount <= 0
    \/ /\ op.op \in {"updateFoodItemQuantity", "updateFoodItemMealCount"}
       /\ plan # Null /\ findIndex(plan.items, op.foodItemId) = 0

\* C15 (invalid operations are reported): an edit with quantityPerMeal <= 0,
\* with a meal count <= 0, naming an item id absent from the current plan, or
\* started with no current plan, produces an observable failure: the store's
\* error is set when the operation returns.
C15_InvalidReported ==
    [][invalidOperation(lastOp', currentPlan) => error' = TRUE]_vars

\* C16 (positivity invariant): in every reachable state every item of a
\* current plan that has at least one slot has quantityPerMeal > 0 and
\* numberOfMeals >= 1, whatever quantities and meal counts were passed to
\* addFoodItem, updateFoodItemQuantity and updateFoodItemMealCount.
C16_Positivity ==
    (currentPlan # Null /\ slots(currentPlan) >= 1) =>
        \A item \in itemsOf(currentPlan) :
            /\ DGt(item.quantityPerMeal, DecInt(0))
            /\ item.numberOfMeals >= 1

\* C17 (absent item id): removeFoodItem, updateFoodItemQuantity and
\* updateFoodItemMealCount naming an item id that the current plan does not
\* hold change neither the current plan nor history.past nor history.future.
C17_AbsentIdNoOp ==
    [][(/\ lastOp'.op \in {"removeFoodItem", "updateFoodItemQuantity", "updateFoodItemMealCount"}
        /\ currentPlan # Null
        /\ findIndex(currentPlan.items, lastOp'.foodItemId) = 0)
       => UNCHANGED <<currentPlan, history>>]_vars

C19_ServerTotals ==
    [][lastOp'.op \in {"POST", "PUT", "POST mealPlans"} =>
          LET body == lastOp'.body IN
          /\ lastOp'.status \in {200, 201} =>
                 \E row \in db'.plans :
                     /\ row.id = lastOp'.planId
                     /\ row.totalCost = serverTotalCost(db, body.items)
          /\ (\E i \in 1..Len(body.items) : body.items[i].foodItemId \notin FoodIds) =>
                 /\ lastOp'.status = 400
                 /\ db' = db]_vars

\* the product of two decimals without any rounding
exactProduct(x, y) == Big(mulNat(x.m, y.m), x.e + y.e)

\* the whole number nearest to a non-negative decimal, halves going up
nearestWhole(x) ==
    IF x.e <= 0 THEN toInt(zeros(-x.e) \o x.m)
    ELSE LET sum == addNat(x.m, Append(zeros(x.e - 1), 5), 0)
         IN  IF x.e >= Len(sum) THEN 0 ELSE toInt(SubSeq(sum, x.e + 1, Len(sum)))

\* the fraction of the body weight fed per day, by activity level
portionFraction ==
    [ puppy    |-> Decimal(<<4>>, 2),
      low      |-> Decimal(<<2>>, 2),
      moderate |-> Decimal(<<2, 5>>, 3),
      high     |-> Decimal(<<3>>, 2),
      senior   |-> Decimal(<<1, 7, 5>>, 4) ]

\* round(wKg * 1000 * m), times 0.03527396195 before rounding when in ounces
expectedDailyPortion(c) ==
    LET w     == Val(c.weight)
        wKg   == IF c.weightUnit = "lbs"
                 THEN exactProduct(w, Decimal(<<4, 5, 3, 5, 9, 2, 3, 7>>, 8)) ELSE w
        grams == exactProduct(exactProduct(wKg, Decimal(<<1, 0, 0, 0>>, 0)),
                              portionFraction[c.activityLevel])
    IN  nearestWhole(IF c.measureUnit = "oz"
                     THEN exactProduct(grams, Decimal(<<3, 5, 2, 7, 3, 9, 6, 1, 9, 5>>, 11))
                     ELSE grams)

\* C20 (daily portion formula): for a positive weight w the displayed daily
\* portion is round(wKg * 1000 * m), where wKg is w for kg and w * 0.45359237
\* for lbs, m is 0.04 for puppy, 0.02 for low, 0.025 for moderate, 0.03 for
\* high and 0.0175 for senior, and the product is multiplied by 0.03527396195
\* before rounding when the measure unit is oz; 10 kg, moderate, grams gives
\* 250 and, with 2 meals per day, a meal portion of 125.
C20_DailyPortion ==
    (IsSome(calculator.weight) /\ Val(calculator.weight).m # <<>>) =>
        /\ calculator.dailyPortion = Some(expectedDailyPortion(calculator))
        /\ (/\ calculator.weight = Some(Decimal(<<1, 0>>, 0))
            /\ calculator.weightUnit = "kg" /\ calculator.measureUnit = "g"
            /\ calculator.activityLevel = "moderate"
            /\ calculator.mealsPerDay = Some(2))
           => /\ calculator.dailyPortion = Some(250)
              /\ calculator.mealPortion = Some(125)

\* C20 witness: scenario B, 10 kg, moderate, grams, 2 meals per day, with the
\* portions 250 and 125 on display.
C20_Witness ==
    /\ calculator.weight = Some(Decimal(<<1, 0>>, 0))
    /\ calculator.weightUnit = "kg" /\ calculator.measureUnit = "g"
    /\ calculator.activityLevel = "moderate"
    /\ calculator.mealsPerDay = Some(2)
    /\ calculator.dailyPortion = Some(250)
    /\ calculator.mealPortion = Some(125)

\* a <= b for two coefficients of the same scale without high zeros
RECURSIVE leNat(_, _)
leNat(a, b) ==
    IF Len(a) # Len(b) THEN Len(a) < Len(b)
    ELSE IF a = <<>> THEN TRUE
    ELSE IF a[Len(a)] # b[Len(b)] THEN a[Len(a)] < b[Len(b)]
    ELSE leNat(SubSeq(a, 1, Len(a) - 1), SubSeq(b, 1, Len(b) - 1))

\* x <= y for two non-negative decimals
lessThanOrEqualTo(x, y) ==
    LET e == IF x.e > y.e THEN x.e ELSE y.e
    IN  leNat(stripHigh(zeros(e - x.e) \o x.m), stripHigh(zeros(e - y.e) \o y.m))

\* weights the displayed portion is compared across: neighbours a hundredth
\* apart, whose portions round to the same whole unit, and distant ones
ComparedWeights ==
    { Decimal(<<9, 9, 9>>, 2), Decimal(<<1, 0>>, 0), Decimal(<<1, 0, 0, 1>>, 2),
      Decimal(<<3, 3, 3>>, 1) }

\* the daily portion displayed (line 144) for weight w under the units and the
\* activity level of c
displayedDailyPortion(c, w) == toDecimalPlaces0(dailyPortionGrams([c EXCEPT !.weight = Some(w)]))

\* C21 (portion monotonicity): for any two positive weights w1 <= w2 with the
\* same weight unit, activity level and measure unit, the rounded daily
\* portion estimated for w1 is at most the one estimated for w2.  Checked in
\* every state in which the calculator displays a portion for a positive
\* weight, for its units and activity level, over the compared weights and
\* the weight on display.
C21_PortionMonotone ==
    (IsSome(calculator.weight) /\ Val(calculator.weight).m # <<>>) =>
        LET ws    == ComparedWeights \cup {Val(calculator.weight)}
            daily == [w \in ws |-> displayedDailyPortion(calculator, w)]
        IN  /\ \A w1, w2 \in ws : lessThanOrEqualTo(w1, w2) => daily[w1] <= daily[w2]
            /\ calculator.dailyPortion = Some(daily[Val(calculator.weight)])

\* C21 witness: 10 kg, moderate, grams shows 250; the heavier 10.01 kg also
\* rounds to 250 and 33.3 kg gives 833, the lighter 9.99 kg gives 250 (249.75).
C21_Witness ==
    /\ calculator.weight = Some(Decimal(<<1, 0>>, 0))
    /\ calculator.weightUnit = "kg" /\ calculator.measureUnit = "g"
    /\ calculator.activityLevel = "moderate"
    /\ calculator.dailyPortion = Some(250)
    /\ displayedDailyPortion(calculator, Decimal(<<9, 9, 9>>, 2)) = 250
    /\ displayedDailyPortion(calculator, Decimal(<<1, 0, 0, 1>>, 2)) = 250
    /\ displayedDailyPortion(calculator, Decimal(<<3, 3, 3>>, 1)) = 833
    /\ lessThanOrEqualTo(Decimal(<<1, 0>>, 0), Decimal(<<1, 0, 0, 1>>, 2))
    /\ ~lessThanOrEqualTo(Decimal(<<1, 0>>, 0), Decimal(<<9, 9, 9>>, 2))

\* n / k rounded to the nearest whole number, halves going up
roundedQuotient(n, k) == (2 * n + k) \div (2 * k)

\* the form's rule for mealsPerDay (lines 52-58): a whole number from 1 to 6
validMealsPerDay(mealsPerDay) ==
    IsSome(mealsPerDay) /\ Val(mealsPerDay) >= 1 /\ Val(mealsPerDay) <= 6

gatedLevel(age, activityLevel) ==
    IF DGt(DecInt(1), age) THEN "puppy"
    ELSE IF ~DGt(DecInt(7), age)
         THEN (IF activityLevel \in {"low", "moderate"} THEN activityLevel ELSE "senior")
    ELSE IF activityLevel \in {"puppy", "senior"} THEN "moderate"
    ELSE activityLevel

\* the levels consistent with an age
levelsFor(age) ==
    IF DGt(DecInt(1), age) THEN {"puppy"}
    ELSE IF ~DGt(DecInt(7), age) THEN {"low", "moderate", "senior"}
    ELSE {"low", "moderate", "high"}

\* C23 (age gating): applying the rule to any (age, activityLevel) gives
\* puppy when age < 1, a level in {low, moderate, senior} when age >= 7 (low
\* and moderate kept, anything else becomes senior), and a level in {low,
\* moderate, high} when 1 <= age < 7 (puppy and senior become moderate, others
\* kept); applying the rule again to the result changes nothing.  Checked for
\* the age in the form against every level the user can choose, and for the
\* level the form holds once its effects have run.
C23_AgeGating ==
    IsSome(calculator.age) =>
        /\ \A activityLevel \in ActivityLevels :
              LET result == ageRule(calculator.age, activityLevel)
              IN  /\ result = gatedLevel(Val(calculator.age), activityLevel)
                  /\ result \in levelsFor(Val(calculator.age))
                  /\ ageRule(calculator.age, result) = result
        /\ calculator.activityLevel \in levelsFor(Val(calculator.age))
        /\ ageRule(calculator.age, calculator.activityLevel) = calculator.activityLevel

\* C23 witness: a dog of exactly 7 years whose level was forced to senior
\* (at 7 the user's low and moderate are kept, so the form reached senior
\* from puppy, high or senior), with a portion on display for it.
C23_Witness ==
    /\ calculator.age = Some(DecInt(7))
    /\ calculator.activityLevel = "senior"
    /\ ageRule(calculator.age, "high") = "senior"
    /\ ageRule(calculator.age, "low") = "low"
    /\ IsSome(calculator.dailyPortion)

\* the orders a list of items can be in
orderings(items) ==
    LET n == Len(items)
    IN  {[i \in 1..n |-> items[f[i]]] :
            f \in {g \in [1..n -> 1..n] : \A i, j \in 1..n : g[i] = g[j] => i = j}}

\* C24 (recompute): recalculateTotalCost is idempotent and order-independent:
\* applying it twice without an intervening edit yields the same totalCost as
\* applying it once, and the result does not depend on the order of the items.
C24_Recalculate ==
    lastOp.op = "recalculateTotalCost" =>
        /\ reduceTotalCost(currentPlan.items) = currentPlan.totalCost
        /\ \A items \in orderings(currentPlan.items) :
              reduceTotalCost(items) = currentPlan.totalCost

\* C25 (saving is not an edit): a successful savePlan leaves history.past and
\* history.future unchanged, so redo steps that were available before the
\* save remain available and the first undo after a save restores the plan
\* as it was before the last edit.
C25_SaveKeepsHistory ==
    [][(lastOp'.op = "savePlan" /\ lastOp'.ok) => history' = history]_vars

\* C26 (a never-persisted plan is created once): if savePlan is invoked again
\* on a plan with an empty id before the first invocation's response has been
\* processed, exactly one plan is created in storage and savedPlans ends with
\* exactly one entry for it (no two entries of savedPlans describe the same
\* plan, and no two share an id).  Every save of SpecSavePlan is a save of the
\* one plan the store was created with.
C26_CreatedOnce ==
    /\ Cardinality(db.plans) <= 1
    /\ Len(savedPlans) <= 1
    /\ \A i, j \in 1..Len(savedPlans) : savedPlans[i].id = savedPlans[j].id => i = j

\* C27 (last request wins on load): when loadPlan(A) is started and then
\* loadPlan(B) is started before A's response arrives, then once both
\* responses have been processed the current plan is B, whatever order the
\* responses arrive in.  Stated for the step that processes the last
\* outstanding successful response r: if r answers the load started last,
\* the current plan becomes r's plan; if the step before processed the
\* successful response of the load started last, the current plan stays.
C27_LastLoadWins ==
    [][\A r \in reqs :
          (/\ reqs = {r} /\ reqs' = {}
           /\ r.kind = "load" /\ r.phase = "ok"
           /\ nReqs >= 2)
          => IF r.rid = nReqs
             THEN currentPlan'.id = r.planId
             ELSE (lastOp.op = "loadPlan" /\ lastOp.rid = nReqs /\ lastOp.ok)
                  => currentPlan'.id = currentPlan.id]_vars

\* C28 (isLoading reflects outstanding work): in every reachable state of the
\* planner store, isLoading is true whenever at least one of
\* fetchAvailableDogs, fetchAvailableFoods, fetchSavedPlans, savePlan,
\* loadPlan or deletePlan has started and not yet finished, including when
\* several of them overlap (as at planner mount, where three fetches start
\* together and a new plan is auto-created once isLoading is false).
C28_IsLoading == reqs # {} => isLoading

\* C29 (item ids are unique): item ids are unique within the current plan in
\* every reachable state (adding a food that is already in the plan does not
\* produce a second item with the same id), so that updateFoodItemQuantity,
\* updateFoodItemMealCount and removeFoodItem by id each affect exactly one
\* item and removeFoodItem reduces the item count by exactly one.
C29_UniqueItemIds ==
    currentPlan # Null =>
        \A i, j \in 1..Len(currentPlan.items) :
            currentPlan.items[i].id = currentPlan.items[j].id => i = j

\* C30 (dogs with meal plans are kept): a dog that has at least one
\* associated meal plan is never deleted by DELETE /api/dogs/:id: the request
\* is answered with status 400 and the dog remains, also when a meal plan for
\* that dog is created concurrently with the delete request; and only the
\* dog's owner can delete it (401 without a session, 404 for an unknown id,
\* 403 for another user's dog).
C30_DogWithPlansKept ==
    [][/\ \A dog \in db.dogs : dogMealPlans(db, dog.id) # {} => dog \in db'.dogs
       /\ \A r \in reqs :
             (r.kind = "deleteDog" /\ r \notin reqs' /\ lastOp'.op = "DELETE dog") =>
                 /\ ~IsSome(r.session) => lastOp'.status = 401
                 /\ (IsSome(r.session) /\ r.dogId \notin {dog.id : dog \in Dogs})
                       => lastOp'.status = 404
                 /\ (IsSome(r.session) /\ \E dog \in db.dogs :
                                             dog.id = r.dogId /\ dog.userId # Val(r.session))
                       => lastOp'.status = 403
                 /\ (IsSome(r.session) /\ \E dog \in db.dogs :
                                             /\ dog.id = r.dogId /\ dog.userId = Val(r.session)
                                             /\ dogMealPlans(db, dog.id) # {})
                       => lastOp'.status = 400 /\ db' = db
                 /\ lastOp'.status = 200
                       => \E dog \in db.dogs : dog.id = r.dogId /\ dog.userId = Val(r.session)]_vars

====
